---- MODULE Spec2Model ----
(***************************************************************************)
(* Model of the technical indicator engine of A-Shares                     *)
(* (src/app/services/technical_service.py) and of the router handler that  *)
(* calls it (src/app/routers/analysis.py).                                 *)
(*                                                                         *)
(* Numbers.  Python floats are modelled as decimal fixed-point numbers     *)
(* with six fractional digits: the integer v stands for v / ONE.  Every    *)
(* float operation rounds its exact result to the nearest representable    *)
(* number, as IEEE arithmetic does at its own precision.  round(v, 4) and  *)
(* round(v, 2) are therefore real conversions (to multiples of 100 and of  *)
(* 10000), not the identity.                                               *)
(*                                                                         *)
(* Optional[float] is modelled as a sequence of length 0 (None) or 1.      *)
(* Python lists are sequences; the source's index i is position i + 1.     *)
(* A call's outcome is a record [exc, val]: exc = "none" for a normal      *)
(* return, otherwise the name of the exception raised.                     *)
(***************************************************************************)
EXTENDS Integers, Sequences, FiniteSets, TLC

\* ------------------------------------------------------------- numbers

\* The fixed-point unit: 1.0
ONE == 1000 * 1000
LIMB == 10 * 100

Abs(a) == IF a < 0 THEN -a ELSE a
Sgn(a) == IF a < 0 THEN -1 ELSE 1
Max2(a, b) == IF a >= b THEN a ELSE b
Min2(a, b) == IF a <= b THEN a ELSE b

\* An integer literal of the source as a float
Num(n) == n * ONE

\* float / int (sum(...) / period): the exact quotient rounded to nearest
IntDiv(a, n) == Sgn(a) * ((Abs(a) + (n \div 2)) \div n)

\* float * float, rounded to nearest; computed on three-digit limbs so that no
\* intermediate product leaves TLC's integer range
FMul(a, b) ==
    LET x == Abs(a)
        y == Abs(b)
        x1 == x \div LIMB
        x0 == x % LIMB
        y1 == y \div LIMB
        y0 == y % LIMB
        mid == x1 * y0 + x0 * y1
        low == (mid % LIMB) * LIMB + x0 * y0
    IN  Sgn(a) * Sgn(b) * (x1 * y1 + (mid \div LIMB) + ((low + (ONE \div 2)) \div ONE))

\* float / float for a non-zero divisor, rounded to nearest: long division,
\* one decimal digit per step
FDiv(a, b) ==
    LET x == Abs(a)
        y == Abs(b)
        q0 == x \div y
        r0 == x % y
        q1 == (r0 * 10) \div y
        r1 == (r0 * 10) % y
        q2 == (r1 * 10) \div y
        r2 == (r1 * 10) % y
        q3 == (r2 * 10) \div y
        r3 == (r2 * 10) % y
        q4 == (r3 * 10) \div y
        r4 == (r3 * 10) % y
        q5 == (r4 * 10) \div y
        r5 == (r4 * 10) % y
        q6 == (r5 * 10) \div y
        r6 == (r5 * 10) % y
        frac == ((((q1 * 10 + q2) * 10 + q3) * 10 + q4) * 10 + q5) * 10 + q6
        up == IF 2 * r6 >= y THEN 1 ELSE 0
    IN  Sgn(a) * Sgn(b) * (q0 * ONE + frac + up)

\* floor of the integer square root
RECURSIVE ISqrtFrom(_, _)
ISqrtFrom(n, x) ==
    LET y == (x + n \div x) \div 2
    IN  IF y >= x THEN x ELSE ISqrtFrom(n, y)

ISqrt(n) == IF n = 0 THEN 0 ELSE ISqrtFrom(n, n)

\* Newton steps for the float square root, from a start within a factor of the root
RECURSIVE SqrtSteps(_, _, _)
SqrtSteps(v, r, k) ==
    IF k = 0 THEN r
    ELSE LET n == (r + FDiv(v, r)) \div 2
         IN  IF n = r THEN r ELSE SqrtSteps(v, n, k - 1)

\* sqrt of a non-negative float
FSqrt(v) == IF v = 0 THEN 0 ELSE SqrtSteps(v, (ISqrt(v) + 1) * LIMB, 8)

\* Python's round(v, nd) for nd = 4 or 2: to the nearest multiple of `unit`,
\* ties to the even multiple
RoundTo(v, unit) ==
    LET x == Abs(v)
        q == x \div unit
        r == x % unit
        up == IF 2 * r > unit \/ (2 * r = unit /\ q % 2 = 1) THEN 1 ELSE 0
    IN  Sgn(v) * (q + up) * unit

Unit4 == ONE \div (100 * 100)
Unit2 == ONE \div 100

\* ------------------------------------------------------- Optional, lists

None == <<>>
Some(v) == <<v>>
IsNone(x) == x = None
Val(x) == x[1]

\* element i (0-based, as in the source) of a list
At(s, i) == s[i + 1]

\* [x] * n
Repeat(x, n) == [i \in 1..n |-> x]

\* prices[a:b] for 0 <= a <= b <= len(prices)
Slice(s, a, b) == SubSeq(s, a + 1, b)

RECURSIVE Sum(_)
Sum(s) == IF s = <<>> THEN 0 ELSE s[1] + Sum(Tail(s))

RECURSIVE MaxOf(_)
MaxOf(s) == IF Len(s) = 1 THEN s[1] ELSE Max2(s[1], MaxOf(Tail(s)))

RECURSIVE MinOf(_)
MinOf(s) == IF Len(s) = 1 THEN s[1] ELSE Min2(s[1], MinOf(Tail(s)))

\* The values handed back as computed
RoundAllSkipped(xs, unit) == xs

\* [round(v, nd) if v is not None else None for v in xs]
RoundAll(xs, unit) ==
    [i \in 1..Len(xs) |-> IF IsNone(xs[i]) THEN None ELSE Some(RoundTo(Val(xs[i]), unit))]

\* A normal return and a raised exception
Ok(v) == [exc |-> "none", val |-> v]
Raise(e) == [exc |-> e, val |-> <<>>]

\* ------------------------------------------------------- calculate_ma

RECURSIVE MaLoop(_, _, _, _)
MaLoop(prices, period, i, ma) ==
    IF i >= Len(prices) THEN ma
    ELSE MaLoop(prices, period, i + 1,
                Append(ma, Some(IntDiv(Sum(Slice(prices, i - period + 1, i + 1)), period))))

\* The warm-up entries filled with zeros instead of None
calculate_ma_zero_filled(prices, period) ==
    IF Len(prices) < period THEN Repeat(Some(0), Len(prices))
    ELSE MaLoop(prices, period, period - 1, Repeat(Some(0), period - 1))

calculate_ma(prices, period) ==
    IF Len(prices) < period THEN Repeat(None, Len(prices))
    ELSE MaLoop(prices, period, period - 1, Repeat(None, period - 1))

\* ------------------------------------------------------- calculate_ema

RECURSIVE EmaLoop(_, _, _, _)
EmaLoop(prices, multiplier, i, ema) ==
    IF i >= Len(prices) THEN ema
    ELSE LET last == Val(ema[Len(ema)])
         IN  EmaLoop(prices, multiplier, i + 1,
                     Append(ema, Some(FMul(At(prices, i) - last, multiplier) + last)))

\* The series seeded with the price at index period - 1 in place of the mean
calculate_ema_price_seed(prices, period) ==
    IF Len(prices) < period THEN Repeat(None, Len(prices))
    ELSE EmaLoop(prices, FDiv(Num(2), Num(period + 1)), period,
                 Append(Repeat(None, period - 1), Some(At(prices, period - 1))))

calculate_ema(prices, period) ==
    IF Len(prices) < period THEN Repeat(None, Len(prices))
    ELSE LET multiplier == FDiv(Num(2), Num(period + 1))
             first_ema == IntDiv(Sum(Slice(prices, 0, period)), period)
         IN  EmaLoop(prices, multiplier, period, Append(Repeat(None, period - 1), Some(first_ema)))

\* ------------------------------------------------------- _get_macd_signals

\* The crossover tests left out: a crossing bar is labelled by its side only
MacdSignalAtNoCross(dif, dea, i) ==
    IF i = 0 \/ IsNone(At(dif, i)) \/ IsNone(At(dea, i))
             \/ IsNone(At(dif, i - 1)) \/ IsNone(At(dea, i - 1))
    THEN "neutral"
    ELSE IF Val(At(dif, i)) > Val(At(dea, i))
    THEN "bullish"
    ELSE "bearish"

\* The label of index i; every value compared has been tested against None
MacdSignalAt(dif, dea, i) ==
    IF i = 0 \/ IsNone(At(dif, i)) \/ IsNone(At(dea, i))
             \/ IsNone(At(dif, i - 1)) \/ IsNone(At(dea, i - 1))
    THEN "neutral"
    ELSE IF Val(At(dif, i - 1)) < Val(At(dea, i - 1)) /\ Val(At(dif, i)) > Val(At(dea, i))
    THEN "golden_cross"
    ELSE IF Val(At(dif, i - 1)) > Val(At(dea, i - 1)) /\ Val(At(dif, i)) < Val(At(dea, i))
    THEN "death_cross"
    ELSE IF Val(At(dif, i)) > Val(At(dea, i))
    THEN "bullish"
    ELSE "bearish"

_get_macd_signals(dif, dea, macd) ==
    [p \in 1..Len(dif) |-> MacdSignalAt(dif, dea, p - 1)]

\* ------------------------------------------------------- calculate_macd

\* [v for v in dif if v is not None]
RECURSIVE Defined(_)
Defined(xs) ==
    IF xs = <<>> THEN <<>>
    ELSE IF IsNone(xs[1]) THEN Defined(Tail(xs))
    ELSE <<Val(xs[1])>> \o Defined(Tail(xs))

\* Lines 64-70: dif from the two EMAs
MacdDif(ema_fast, ema_slow) ==
    [p \in 1..Len(ema_fast) |->
        IF ~IsNone(ema_fast[p]) /\ ~IsNone(ema_slow[p])
        THEN Some(Val(ema_fast[p]) - Val(ema_slow[p]))
        ELSE None]

\* The EMA of the defined dif values left where it starts: shifted to the left
MacdDeaShifted(dif, dif_values, signal_period) ==
    IF Len(dif_values) >= signal_period
    THEN calculate_ema(dif_values, signal_period) \o Repeat(None, Len(dif) - Len(dif_values))
    ELSE Repeat(None, Len(dif))

\* Lines 72-79: dea, the EMA of the defined dif values aligned back to the right
MacdDea(dif, dif_values, signal_period) ==
    IF Len(dif_values) >= signal_period
    THEN Repeat(None, Len(dif) - Len(dif_values)) \o calculate_ema(dif_values, signal_period)
    ELSE Repeat(None, Len(dif))

\* Lines 81-87: the histogram
MacdHist(dif, dea) ==
    [p \in 1..Len(dif) |->
        IF ~IsNone(dif[p]) /\ ~IsNone(dea[p])
        THEN Some((Val(dif[p]) - Val(dea[p])) * 2)
        ELSE None]

\* Lines 89-97: the labels, set on the unrounded lines, and the rounded lines
MacdResult(dif, dea, macd) ==
    [dif |-> RoundAll(dif, Unit4),
     dea |-> RoundAll(dea, Unit4),
     macd |-> RoundAll(macd, Unit4),
     signal |-> _get_macd_signals(dif, dea, macd)]

MacdFromLines(dif, dea) == MacdResult(dif, dea, MacdHist(dif, dea))

MacdFromDif(dif, signal_period) ==
    MacdFromLines(dif, MacdDea(dif, Defined(dif), signal_period))

calculate_macd(prices, fast_period, slow_period, signal_period) ==
    IF Len(prices) < slow_period + signal_period
    THEN [dif |-> Repeat(None, Len(prices)),
          dea |-> Repeat(None, Len(prices)),
          macd |-> Repeat(None, Len(prices)),
          signal |-> Repeat("neutral", Len(prices))]
    ELSE MacdFromDif(MacdDif(calculate_ema(prices, fast_period),
                             calculate_ema(prices, slow_period)),
                     signal_period)

\* ------------------------------------------------------- _get_kdj_signals

\* The label of index i.  Once k[i] and d[i] are known to be defined, every branch
\* first evaluates a comparison of k[i-1] with d[i-1] (lines 214, 220, 225); Python
\* raises TypeError when an operand of < or > is None.
KdjSignalAt(k, d, i) ==
    IF i = 0 \/ IsNone(At(k, i)) \/ IsNone(At(d, i))
    THEN "neutral"
    ELSE LET ki == Val(At(k, i))
             di == Val(At(d, i))
         IN  IF ki > Num(80) /\ di > Num(80)
             THEN IF IsNone(At(k, i - 1)) \/ IsNone(At(d, i - 1)) THEN "TypeError"
                  ELSE IF Val(At(k, i - 1)) > Val(At(d, i - 1)) /\ ki < di
                       THEN "overbought_cross"
                       ELSE "overbought"
             ELSE IF ki < Num(20) /\ di < Num(20)
             THEN IF IsNone(At(k, i - 1)) \/ IsNone(At(d, i - 1)) THEN "TypeError"
                  ELSE IF Val(At(k, i - 1)) < Val(At(d, i - 1)) /\ ki > di
                       THEN "oversold_cross"
                       ELSE "oversold"
             ELSE IF IsNone(At(k, i - 1)) \/ IsNone(At(d, i - 1)) THEN "TypeError"
             ELSE IF Val(At(k, i - 1)) < Val(At(d, i - 1)) /\ ki > di
             THEN "golden_cross"
             ELSE IF Val(At(k, i - 1)) > Val(At(d, i - 1)) /\ ki < di
             THEN "death_cross"
             ELSE "neutral"

\* The loop of lines 207-231: the first index whose comparison raises ends the call
_get_kdj_signals(k, d, j) ==
    LET signals == [p \in 1..Len(k) |-> KdjSignalAt(k, d, p - 1)]
    IN  IF \E p \in 1..Len(k) : signals[p] = "TypeError"
        THEN Raise("TypeError")
        ELSE Ok(signals)

\* ------------------------------------------------------- calculate_kdj

\* The window's floor taken from the highs
RsvLowFromHighs(high, low, close, period, i) ==
    IF i < period - 1 THEN None
    ELSE LET highest == MaxOf(Slice(high, i - period + 1, i + 1))
             lowest == MinOf(Slice(high, i - period + 1, i + 1))
         IN  IF highest = lowest THEN Some(Num(50))
             ELSE Some(FDiv(At(close, i) - lowest, highest - lowest) * 100)

Rsv(high, low, close, period, i) ==
    IF i < period - 1 THEN None
    ELSE LET highest == MaxOf(Slice(high, i - period + 1, i + 1))
             lowest == MinOf(Slice(low, i - period + 1, i + 1))
         IN  IF highest = lowest THEN Some(Num(50))
             ELSE Some(FDiv(At(close, i) - lowest, highest - lowest) * 100)

\* The loops of lines 166-170 and 175-179: out[i] = (2/3) * out[-1] + (1/3) * src[i]
RECURSIVE SmoothLoop(_, _, _, _)
SmoothLoop(src, n, i, out) ==
    IF i >= n THEN out
    ELSE LET last == Val(out[Len(out)])
         IN  SmoothLoop(src, n, i + 1,
                 Append(out, IF ~IsNone(At(src, i))
                             THEN Some(FMul(FDiv(Num(2), Num(3)), last)
                                       + FMul(FDiv(Num(1), Num(3)), Val(At(src, i))))
                             ELSE Some(last)))

\* Lines 181-187: j
KdjJ(k, d) ==
    [p \in 1..Len(k) |->
        IF ~IsNone(k[p]) /\ ~IsNone(d[p])
        THEN Some(3 * Val(k[p]) - 2 * Val(d[p]))
        ELSE None]

\* Lines 189-197: the call of the classifier, whose exception is not caught, and
\* the rounded lines
KdjResult(k, d, j, signals) ==
    IF signals.exc # "none" THEN Raise(signals.exc)
    ELSE Ok([k |-> RoundAll(k, Unit2),
             d |-> RoundAll(d, Unit2),
             j |-> RoundAll(j, Unit2),
             signal |-> signals.val])

KdjFromLines(k, d, j) == KdjResult(k, d, j, _get_kdj_signals(k, d, j))

KdjFromKD(k, d) == KdjFromLines(k, d, KdjJ(k, d))

\* Lines 172-179: d from k
KdjFromK(k, period) ==
    KdjFromKD(k, SmoothLoop(k, Len(k), period,
                            Append(Repeat(None, period - 1), Some(Num(50)))))

\* Lines 163-170: k from rsv
KdjFromRsv(rsv, period) ==
    KdjFromK(SmoothLoop(rsv, Len(rsv), period,
                        Append(Repeat(None, period - 1), Some(Num(50)))),
             period)

calculate_kdj(high, low, close, period, k_period, d_period) ==
    IF Len(close) < period
    THEN Ok([k |-> Repeat(None, Len(close)),
             d |-> Repeat(None, Len(close)),
             j |-> Repeat(None, Len(close)),
             signal |-> Repeat("neutral", Len(close))])
    ELSE KdjFromRsv([p \in 1..Len(close) |-> Rsv(high, low, close, period, p - 1)], period)

\* ------------------------------------------------------- calculate_rsi

\* No losses read as "no information": 50 instead of 100
RsiOfZeroLossNeutral(avg_gain, avg_loss) ==
    IF avg_loss = 0 THEN Num(50)
    ELSE LET rs == FDiv(avg_gain, avg_loss)
         IN  Num(100) - FDiv(Num(100), Num(1) + rs)

\* rsi from the two averages (lines 265-269 and 276-280)
RsiOf(avg_gain, avg_loss) ==
    IF avg_loss = 0 THEN Num(100)
    ELSE LET rs == FDiv(avg_gain, avg_loss)
         IN  Num(100) - FDiv(Num(100), Num(1) + rs)

RECURSIVE RsiLoop(_, _, _, _, _, _, _)
RsiLoop(gains, losses, period, i, avg_gain, avg_loss, rsi) ==
    IF i >= Len(gains) THEN rsi
    ELSE LET g == IntDiv(avg_gain * (period - 1) + At(gains, i), period)
             l == IntDiv(avg_loss * (period - 1) + At(losses, i), period)
         IN  RsiLoop(gains, losses, period, i + 1, g, l, Append(rsi, Some(RsiOf(g, l))))

\* A sixth label for values from 90 up
RsiSignalExtreme(r) ==
    IF IsNone(r) THEN "neutral"
    ELSE IF Val(r) >= Num(90) THEN "extreme_overbought"
    ELSE IF Val(r) >= Num(70) THEN "overbought"
    ELSE IF Val(r) <= Num(30) THEN "oversold"
    ELSE IF Val(r) >= Num(50) THEN "bullish"
    ELSE "bearish"

\* 50 itself left to the bearish side
RsiSignalStrictBullish(r) ==
    IF IsNone(r) THEN "neutral"
    ELSE IF Val(r) >= Num(70) THEN "overbought"
    ELSE IF Val(r) <= Num(30) THEN "oversold"
    ELSE IF Val(r) > Num(50) THEN "bullish"
    ELSE "bearish"

RsiSignal(r) ==
    IF IsNone(r) THEN "neutral"
    ELSE IF Val(r) >= Num(70) THEN "overbought"
    ELSE IF Val(r) <= Num(30) THEN "oversold"
    ELSE IF Val(r) >= Num(50) THEN "bullish"
    ELSE "bearish"

\* The seed averaged over changes 0..13, the 0 of index 0 included
calculate_rsi_seed_from_zero(prices, period) ==
    IF Len(prices) < period + 1
    THEN [rsi |-> Repeat(None, Len(prices)),
          signal |-> Repeat("neutral", Len(prices))]
    ELSE LET changes == [p \in 1..Len(prices) |->
                            IF p = 1 THEN 0 ELSE prices[p] - prices[p - 1]]
             gains == [p \in 1..Len(prices) |-> Max2(0, changes[p])]
             losses == [p \in 1..Len(prices) |-> Abs(Min2(0, changes[p]))]
             avg_gain == IntDiv(Sum(Slice(gains, 0, period)), period)
             avg_loss == IntDiv(Sum(Slice(losses, 0, period)), period)
             rsi == RsiLoop(gains, losses, period, period + 1, avg_gain, avg_loss,
                            Append(Repeat(None, period), Some(RsiOf(avg_gain, avg_loss))))
         IN  [rsi |-> RoundAll(rsi, Unit2),
              signal |-> [p \in 1..Len(rsi) |-> RsiSignal(rsi[p])]]

calculate_rsi(prices, period) ==
    IF Len(prices) < period + 1
    THEN [rsi |-> Repeat(None, Len(prices)),
          signal |-> Repeat("neutral", Len(prices))]
    ELSE LET changes == [p \in 1..Len(prices) |->
                            IF p = 1 THEN 0 ELSE prices[p] - prices[p - 1]]
             gains == [p \in 1..Len(prices) |-> Max2(0, changes[p])]
             losses == [p \in 1..Len(prices) |-> Abs(Min2(0, changes[p]))]
             avg_gain == IntDiv(Sum(Slice(gains, 1, period + 1)), period)
             avg_loss == IntDiv(Sum(Slice(losses, 1, period + 1)), period)
             rsi == RsiLoop(gains, losses, period, period + 1, avg_gain, avg_loss,
                            Append(Repeat(None, period), Some(RsiOf(avg_gain, avg_loss))))
         IN  [rsi |-> RoundAll(rsi, Unit2),
              signal |-> [p \in 1..Len(rsi) |-> RsiSignal(rsi[p])]]

\* ------------------------------------------------------- calculate_boll

\* The sample standard deviation (ddof = 1) in place of the population one
np_std_sample(window) ==
    LET n == Len(window)
        mean == IntDiv(Sum(window), n)
        sq == [p \in 1..n |-> FMul(window[p] - mean, window[p] - mean)]
    IN  FSqrt(IntDiv(Sum(sq), n - 1))

\* numpy.std(window): the population standard deviation
np_std(window) ==
    LET n == Len(window)
        mean == IntDiv(Sum(window), n)
        sq == [p \in 1..n |-> FMul(window[p] - mean, window[p] - mean)]
    IN  FSqrt(IntDiv(Sum(sq), n))

\* The bands of index i >= period - 1 (lines 326-332), before rounding
BollAt(prices, period, std_dev, i) ==
    LET window == Slice(prices, i - period + 1, i + 1)
        ma == IntDiv(Sum(window), period)
        std == np_std(window)
    IN  [middle |-> ma, upper |-> ma + FMul(std_dev, std), lower |-> ma - FMul(std_dev, std)]

\* The comparisons with the bands made strict
BollSignalStrict(price, b) ==
    IF IsNone(b) THEN "neutral"
    ELSE IF price > Val(b).upper THEN "overbought"
    ELSE IF price < Val(b).lower THEN "oversold"
    ELSE IF price > Val(b).middle THEN "bullish"
    ELSE "bearish"

BollSignal(price, b) ==
    IF IsNone(b) THEN "neutral"
    ELSE IF price >= Val(b).upper THEN "overbought"
    ELSE IF price <= Val(b).lower THEN "oversold"
    ELSE IF price > Val(b).middle THEN "bullish"
    ELSE "bearish"

calculate_boll(prices, period, std_dev) ==
    IF Len(prices) < period
    THEN [upper |-> Repeat(None, Len(prices)),
          middle |-> Repeat(None, Len(prices)),
          lower |-> Repeat(None, Len(prices)),
          signal |-> Repeat("neutral", Len(prices))]
    ELSE LET bands == [p \in 1..Len(prices) |->
                          IF p - 1 < period - 1 THEN None
                          ELSE Some(BollAt(prices, period, std_dev, p - 1))]
             Band(f(_)) == [p \in 1..Len(prices) |->
                               IF IsNone(bands[p]) THEN None ELSE Some(f(Val(bands[p])))]
             Upper(b) == b.upper
             Middle(b) == b.middle
             Lower(b) == b.lower
         IN  [upper |-> RoundAll(Band(Upper), Unit4),
              middle |-> RoundAll(Band(Middle), Unit4),
              lower |-> RoundAll(Band(Lower), Unit4),
              signal |-> [p \in 1..Len(prices) |-> BollSignal(prices[p], bands[p])]]

\* ------------------------------------------------------- _get_latest_signals

\* xs[-1]
Last(xs) == xs[Len(xs)]

\* The first element read in place of the last
FirstOr(xs, dflt) == IF Len(xs) > 0 THEN xs[1] ELSE dflt

\* xs[-1] if xs else dflt
LastOr(xs, dflt) == IF Len(xs) > 0 THEN Last(xs) ELSE dflt

\* One entry of the signals list.  The source's Chinese signal texts are written
\* by their meaning; the RSI texts embed the value formatted with one decimal.
Entry(indicator, signal, type) == [indicator |-> indicator, signal |-> signal, type |-> type]

\* Each source's contribution: [sig: entries appended, bull, bear: counter increments]
Contribution(sig, bull, bear) == [sig |-> sig, bull |-> bull, bear |-> bear]

MacdPart(macd_signal) ==
    IF macd_signal = "golden_cross"
    THEN Contribution(<<Entry("MACD", <<"golden_cross">>, "buy")>>, 2, 0)
    ELSE IF macd_signal = "death_cross"
    THEN Contribution(<<Entry("MACD", <<"death_cross">>, "sell")>>, 0, 2)
    ELSE IF macd_signal = "bullish" THEN Contribution(<<>>, 1, 0)
    ELSE IF macd_signal = "bearish" THEN Contribution(<<>>, 0, 1)
    ELSE Contribution(<<>>, 0, 0)

\* The zone labels scored as if they were crosses
KdjPartScoringWarnings(kdj_signal) ==
    IF kdj_signal \in {"oversold_cross", "oversold"}
    THEN Contribution(<<Entry("KDJ", <<kdj_signal>>, "buy")>>, 2, 0)
    ELSE IF kdj_signal \in {"overbought_cross", "overbought"}
    THEN Contribution(<<Entry("KDJ", <<kdj_signal>>, "sell")>>, 0, 2)
    ELSE IF kdj_signal = "golden_cross"
    THEN Contribution(<<Entry("KDJ", <<"golden_cross">>, "buy")>>, 1, 0)
    ELSE IF kdj_signal = "death_cross"
    THEN Contribution(<<Entry("KDJ", <<"death_cross">>, "sell")>>, 0, 1)
    ELSE Contribution(<<>>, 0, 0)

KdjPart(kdj_signal) ==
    IF kdj_signal = "oversold_cross"
    THEN Contribution(<<Entry("KDJ", <<"oversold_golden_cross">>, "buy")>>, 2, 0)
    ELSE IF kdj_signal = "overbought_cross"
    THEN Contribution(<<Entry("KDJ", <<"overbought_death_cross">>, "sell")>>, 0, 2)
    ELSE IF kdj_signal = "golden_cross"
    THEN Contribution(<<Entry("KDJ", <<"golden_cross">>, "buy")>>, 1, 0)
    ELSE IF kdj_signal = "death_cross"
    THEN Contribution(<<Entry("KDJ", <<"death_cross">>, "sell")>>, 0, 1)
    ELSE IF kdj_signal = "overbought"
    THEN Contribution(<<Entry("KDJ", <<"overbought">>, "warning")>>, 0, 0)
    ELSE IF kdj_signal = "oversold"
    THEN Contribution(<<Entry("KDJ", <<"oversold">>, "warning")>>, 0, 0)
    ELSE Contribution(<<>>, 0, 0)

\* f"{rsi_value:.1f}"
Fmt1(v) == RoundTo(v, ONE \div 10)

RsiPart(rsi_signal, rsi_value) ==
    IF rsi_signal = "overbought"
    THEN Contribution(<<Entry("RSI", <<"overbought", Fmt1(rsi_value)>>, "sell")>>, 0, 1)
    ELSE IF rsi_signal = "oversold"
    THEN Contribution(<<Entry("RSI", <<"oversold", Fmt1(rsi_value)>>, "buy")>>, 1, 0)
    ELSE Contribution(<<>>, 0, 0)

\* The band touches counted like the RSI zones
BollPartScored(boll_signal) ==
    IF boll_signal = "overbought"
    THEN Contribution(<<Entry("BOLL", <<"touch_upper">>, "warning")>>, 0, 1)
    ELSE IF boll_signal = "oversold"
    THEN Contribution(<<Entry("BOLL", <<"touch_lower">>, "warning")>>, 1, 0)
    ELSE Contribution(<<>>, 0, 0)

BollPart(boll_signal) ==
    IF boll_signal = "overbought"
    THEN Contribution(<<Entry("BOLL", <<"touch_upper">>, "warning")>>, 0, 0)
    ELSE IF boll_signal = "oversold"
    THEN Contribution(<<Entry("BOLL", <<"touch_lower">>, "warning")>>, 0, 0)
    ELSE Contribution(<<>>, 0, 0)

MaPart(ma5, ma10, closes) ==
    IF Len(closes) > 0 /\ ~IsNone(Last(ma5)) /\ ~IsNone(Last(ma10))
    THEN LET close == Last(closes)
         IN  IF close > Val(Last(ma5)) /\ Val(Last(ma5)) > Val(Last(ma10))
             THEN Contribution(<<Entry("MA", <<"bull_alignment">>, "buy")>>, 1, 0)
             ELSE IF close < Val(Last(ma5)) /\ Val(Last(ma5)) < Val(Last(ma10))
             THEN Contribution(<<Entry("MA", <<"bear_alignment">>, "sell")>>, 0, 1)
             ELSE Contribution(<<>>, 0, 0)
    ELSE Contribution(<<>>, 0, 0)

\* The strong labels given from a lead of two
OverallStrongAtTwo(bullish_count, bearish_count) ==
    IF bullish_count > bearish_count + 1
    THEN [overall |-> "strong_bull", overall_color |-> "#52c41a"]
    ELSE IF bullish_count > bearish_count
    THEN [overall |-> "mild_bull", overall_color |-> "#73d13d"]
    ELSE IF bearish_count > bullish_count + 1
    THEN [overall |-> "strong_bear", overall_color |-> "#f5222d"]
    ELSE IF bearish_count > bullish_count
    THEN [overall |-> "mild_bear", overall_color |-> "#ff7875"]
    ELSE [overall |-> "neutral", overall_color |-> "#faad14"]

\* Lines 488-503: [overall, overall_color]
Overall(bullish_count, bearish_count) ==
    IF bullish_count > bearish_count + 2
    THEN [overall |-> "strong_bull", overall_color |-> "#52c41a"]
    ELSE IF bullish_count > bearish_count
    THEN [overall |-> "mild_bull", overall_color |-> "#73d13d"]
    ELSE IF bearish_count > bullish_count + 2
    THEN [overall |-> "strong_bear", overall_color |-> "#f5222d"]
    ELSE IF bearish_count > bullish_count
    THEN [overall |-> "mild_bear", overall_color |-> "#ff7875"]
    ELSE [overall |-> "neutral", overall_color |-> "#faad14"]

_get_latest_signals(macd, kdj, rsi, boll, ma5, ma10, ma20, closes) ==
    LET m == MacdPart(LastOr(macd.signal, "neutral"))
        k == KdjPart(LastOr(kdj.signal, "neutral"))
        rsi_value == IF Len(rsi.rsi) > 0 /\ ~IsNone(Last(rsi.rsi))
                     THEN Val(Last(rsi.rsi)) ELSE Num(50)
        r == RsiPart(LastOr(rsi.signal, "neutral"), rsi_value)
        b == BollPart(LastOr(boll.signal, "neutral"))
        a == MaPart(ma5, ma10, closes)
        bullish_count == m.bull + k.bull + r.bull + b.bull + a.bull
        bearish_count == m.bear + k.bear + r.bear + b.bear + a.bear
        o == Overall(bullish_count, bearish_count)
    IN  [signals |-> m.sig \o k.sig \o r.sig \o b.sig \o a.sig,
         bullish_count |-> bullish_count,
         bearish_count |-> bearish_count,
         overall |-> o.overall,
         overall_color |-> o.overall_color,
         latest_values |->
            [macd_dif |-> LastOr(macd.dif, None),
             macd_dea |-> LastOr(macd.dea, None),
             kdj_k |-> LastOr(kdj.k, None),
             kdj_d |-> LastOr(kdj.d, None),
             kdj_j |-> LastOr(kdj.j, None),
             rsi |-> LastOr(rsi.rsi, None),
             boll_upper |-> LastOr(boll.upper, None),
             boll_middle |-> LastOr(boll.middle, None),
             boll_lower |-> LastOr(boll.lower, None)]]

\* ------------------------------------------------------- calculate_all_indicators

\* The default periods of the calculators' signatures
FastPeriod == 12
SlowPeriod == 26
SignalPeriod == 9
KdjPeriod == 9
KPeriod == 3
DPeriod == 3
RsiPeriod == 14
BollPeriod == 20
BollStdDev == Num(2)
MinBars == 30

\* The message of the error dict of line 364 (in the source: Chinese for
\* "insufficient data, at least 30 K-line bars are needed")
InsufficientMessage == "insufficient data: at least 30 K-line bars are needed"

\* A bar's field: a number, or a value float() rejects with ValueError
Field(v) == [num |-> TRUE, v |-> v]
NotANumber == [num |-> FALSE, v |-> 0]

Column(bars, name) == [p \in 1..Len(bars) |-> bars[p][name].v]

\* A floor one bar too low: 29 bars pass
TooShortOffByOne(kline_data) ==
    IsNone(kline_data) \/ Len(Val(kline_data)) = 0 \/ Len(Val(kline_data)) < MinBars - 1

\* not kline_data or len(kline_data) < 30 (line 363, and line 413 of the router)
TooShort(kline_data) ==
    IsNone(kline_data) \/ Len(Val(kline_data)) = 0 \/ Len(Val(kline_data)) < MinBars

\* float(d[...]) succeeds on every field of every bar
Numeric(bars) ==
    \A p \in 1..Len(bars) :
        \A f \in {"open", "high", "low", "close", "volume"} : bars[p][f].num

\* Lines 379-411: the moving averages, the summary and the result
AllResult(bars, closes, macd, kdj, rsi, boll, ma5, ma10, ma20, ma60) ==
    [exc |-> "none",
     val |-> [dates |-> [p \in 1..Len(bars) |-> bars[p].date],
              prices |-> [open |-> Column(bars, "open"),
                          high |-> Column(bars, "high"),
                          low |-> Column(bars, "low"),
                          close |-> closes,
                          volume |-> Column(bars, "volume")],
              indicators |->
                 [macd |-> macd, kdj |-> kdj, rsi |-> rsi, boll |-> boll,
                  ma |-> [ma5 |-> RoundAll(ma5, Unit4),
                          ma10 |-> RoundAll(ma10, Unit4),
                          ma20 |-> RoundAll(ma20, Unit4),
                          ma60 |-> RoundAll(ma60, Unit4)]],
              latest_signals |->
                 _get_latest_signals(macd, kdj, rsi, boll, ma5, ma10, ma20, closes),
              data_count |-> Len(bars)],
     ran |-> <<"macd", "kdj", "rsi", "boll", "ma5", "ma10", "ma20", "ma60",
               "latest_signals">>]

\* Lines 375-383: an exception of calculate_kdj leaves the method at line 375
AfterKdj(bars, closes, macd, kdj) ==
    IF kdj.exc # "none"
    THEN [exc |-> kdj.exc, val |-> <<>>, ran |-> <<"macd", "kdj">>]
    ELSE AllResult(bars, closes, macd, kdj.val,
                   calculate_rsi(closes, RsiPeriod),
                   calculate_boll(closes, BollPeriod, BollStdDev),
                   calculate_ma(closes, 5), calculate_ma(closes, 10),
                   calculate_ma(closes, 20), calculate_ma(closes, 60))

\* Lines 374-375
Calculators(bars, highs, lows, closes) ==
    AfterKdj(bars, closes,
             calculate_macd(closes, FastPeriod, SlowPeriod, SignalPeriod),
             calculate_kdj(highs, lows, closes, KdjPeriod, KPeriod, DPeriod))

\* The outcome of calculate_all_indicators with, as `ran`, the calculators it
\* invoked, in order.  kline_data is None or Some(list of bars).
calculate_all_indicators(kline_data) ==
    IF TooShort(kline_data)
    THEN [exc |-> "none", val |-> [error |-> InsufficientMessage], ran |-> <<>>]
    ELSE IF ~Numeric(Val(kline_data))
    THEN [exc |-> "ValueError", val |-> <<>>, ran |-> <<>>]
    ELSE Calculators(Val(kline_data),
                     Column(Val(kline_data), "high"),
                     Column(Val(kline_data), "low"),
                     Column(Val(kline_data), "close"))

\* ------------------------------------------------------- get_technical_analysis

\* Lines 420-434: an exception leaving the service is not caught by the handler
\* (the framework answers 500); an error result becomes a 400
AfterService(result) ==
    IF result.exc # "none"
    THEN [status |-> 500, called |-> TRUE, body |-> <<>>, ran |-> result.ran]
    ELSE IF "error" \in DOMAIN result.val
    THEN [status |-> 400, called |-> TRUE, body |-> <<>>, ran |-> result.ran]
    ELSE [status |-> 200, called |-> TRUE, body |-> result.val, ran |-> result.ran]

\* The router's handler once the quote is found: the response's status code,
\* whether the service was called, and the service's call log.
get_technical_analysis(kline_data) ==
    IF TooShort(kline_data)
    THEN [status |-> 400, called |-> FALSE, body |-> <<>>, ran |-> <<>>]
    ELSE AfterService(calculate_all_indicators(kline_data))

\* ------------------------------------------------------- inputs

\* Bounds of the inputs explored
MaxBars == 36
MaxHalf == 3
MaxList == 3
MaxPeriod == 4
MaxSignals == 2
MaxLead == 1
MaxShift == 2

\* Price series: a level, and moves of half a unit per bar
Base == Num(20)
Step == ONE \div 2

\* A triangle wave of half-period m
Tri(i, m, ph) ==
    LET x == (i + ph) % (2 * m)
    IN  IF x < m THEN x ELSE 2 * m - x

\* The shapes of a series: flat, a triangle wave, stairs up or down with one move
\* every m bars
Shapes ==
    {[kind |-> "flat", m |-> 1, ph |-> 0]}
    \cup {sh \in {[kind |-> "tri", m |-> m, ph |-> ph] :
                      m \in 1..MaxHalf, ph \in 0..(2 * MaxHalf - 1)} : sh.ph < 2 * sh.m}
    \cup {[kind |-> k, m |-> m, ph |-> 0] : k \in {"up", "down"}, m \in 1..MaxHalf}

Price(sh, i) ==
    Base + Step * (CASE sh.kind = "flat" -> 0
                     [] sh.kind = "tri" -> Tri(i, sh.m, sh.ph)
                     [] sh.kind = "up" -> i \div sh.m
                     [] sh.kind = "down" -> -(i \div sh.m))

\* The closing prices of n bars
Closes(sh, n) == [p \in 1..n |-> Price(sh, p - 1)]

\* n bars around those closes: high and low are `spread` steps above and below
Bars(sh, n, spread) ==
    [p \in 1..n |->
        [date |-> p,
         open |-> Field(Price(sh, p - 1)),
         high |-> Field(Price(sh, p - 1) + spread * Step),
         low |-> Field(Price(sh, p - 1) - spread * Step),
         close |-> Field(Price(sh, p - 1)),
         volume |-> Field(Num(1000))]]

\* Short lists of small prices, for the calculators called with any period
RECURSIVE Lists(_, _)
Lists(vals, n) ==
    IF n = 0 THEN {<<>>}
    ELSE LET shorter == Lists(vals, n - 1)
         IN  shorter \cup {Append(l, v) : l \in {x \in shorter : Len(x) = n - 1}, v \in vals}

SmallPrices == {Num(1), Num(2), Num(4)}

\* The values of a line handed to a signal classifier
MacdLineValues == {None, Some(0), Some(Unit4)}
KdjLineValues == {None, Some(Num(10)), Some(Num(15)), Some(Num(50)), Some(Num(85)), Some(Num(90))}

\* The labels each calculator can append
MacdLabels == {"neutral", "golden_cross", "death_cross", "bullish", "bearish"}
KdjLabels == {"neutral", "overbought_cross", "overbought", "oversold_cross", "oversold",
              "golden_cross", "death_cross"}
RsiLabels == {"neutral", "overbought", "oversold", "bullish", "bearish"}
BollLabels == {"neutral", "overbought", "oversold", "bullish", "bearish"}

\* One-bar results of the calculators that end in a given label, as
\* _get_latest_signals receives them; with `empty`, results of an empty series
OneOrNone(empty, x) == IF empty THEN <<>> ELSE <<x>>

LatestMacd(label, empty) ==
    LET dif == IF label = "neutral" THEN None
               ELSE IF label \in {"golden_cross", "bullish"} THEN Some(Unit4) ELSE Some(0)
        dea == IF label = "neutral" THEN None
               ELSE IF label \in {"golden_cross", "bullish"} THEN Some(0) ELSE Some(Unit4)
    IN  [dif |-> OneOrNone(empty, dif), dea |-> OneOrNone(empty, dea),
         macd |-> OneOrNone(empty, IF IsNone(dif) THEN None
                                   ELSE Some(2 * (Val(dif) - Val(dea)))),
         signal |-> OneOrNone(empty, label)]

LatestKdj(label, empty) ==
    LET k == CASE label \in {"overbought_cross", "overbought"} -> Some(Num(85))
               [] label \in {"oversold_cross", "oversold"} -> Some(Num(15))
               [] label = "golden_cross" -> Some(Num(55))
               [] label = "death_cross" -> Some(Num(45))
               [] OTHER -> None
        d == CASE label = "overbought_cross" -> Some(Num(90))
               [] label = "overbought" -> Some(Num(82))
               [] label = "oversold_cross" -> Some(Num(10))
               [] label = "oversold" -> Some(Num(18))
               [] label \in {"golden_cross", "death_cross"} -> Some(Num(50))
               [] OTHER -> None
    IN  [k |-> OneOrNone(empty, k), d |-> OneOrNone(empty, d),
         j |-> OneOrNone(empty, IF IsNone(k) THEN None ELSE Some(3 * Val(k) - 2 * Val(d))),
         signal |-> OneOrNone(empty, label)]

LatestRsi(label, empty) ==
    [rsi |-> OneOrNone(empty, CASE label = "overbought" -> Some(Num(75))
                                [] label = "oversold" -> Some(Num(25))
                                [] label = "bullish" -> Some(Num(60))
                                [] label = "bearish" -> Some(Num(40))
                                [] OTHER -> None),
     signal |-> OneOrNone(empty, label)]

LatestBoll(label, empty) ==
    [upper |-> OneOrNone(empty, IF label = "neutral" THEN None ELSE Some(Num(22))),
     middle |-> OneOrNone(empty, IF label = "neutral" THEN None ELSE Some(Num(20))),
     lower |-> OneOrNone(empty, IF label = "neutral" THEN None ELSE Some(Num(18))),
     signal |-> OneOrNone(empty, label)]

\* The last close against the 5- and 10-bar averages: [close, ma5, ma10]
Alignments ==
    {[kind |-> "bull", close |-> Num(22), ma5 |-> Some(Num(21)), ma10 |-> Some(Num(20))],
     [kind |-> "bear", close |-> Num(18), ma5 |-> Some(Num(19)), ma10 |-> Some(Num(20))],
     [kind |-> "mixed", close |-> Num(21), ma5 |-> Some(Num(19)), ma10 |-> Some(Num(20))],
     [kind |-> "level", close |-> Num(20), ma5 |-> Some(Num(20)), ma10 |-> Some(Num(20))],
     [kind |-> "short", close |-> Num(20), ma5 |-> Some(Num(20)), ma10 |-> None]}

\* ------------------------------------------------------- PortfolioService
\* The service is [positions, transactions, data_file]: positions maps each
\* held code to its Position, data_file is what _save_data wrote last (None while
\* there is no file).  Names, notes, ids and the dates taken from the wall clock
\* are left out; prices and amounts are floats, quantities are ints.

COMMISSION_RATE == 3 * Unit4
MIN_COMMISSION == Num(5)
STAMP_TAX_RATE == 10 * Unit4

calculate_fee(price, quantity, is_sell) ==
    LET amount == price * quantity
        commission == Max2(FMul(amount, COMMISSION_RATE), MIN_COMMISSION)
        stamp_tax == IF is_sell THEN FMul(amount, STAMP_TAX_RATE) ELSE 0
    IN  RoundTo(commission + stamp_tax, Unit2)

Position(quantity, cost_price, cost_amount, total_fee) ==
    [quantity |-> quantity, cost_price |-> cost_price, cost_amount |-> cost_amount,
     total_fee |-> total_fee]

Transaction(code, type, price, quantity, amount, fee) ==
    [code |-> code, type |-> type, price |-> price, quantity |-> quantity,
     amount |-> amount, fee |-> fee]

\* self.positions[code] = pos
WithPosition(positions, code, pos) ==
    [c \in DOMAIN positions \cup {code} |-> IF c = code THEN pos ELSE positions[c]]

\* del self.positions[code]
WithoutPosition(positions, code) == [c \in DOMAIN positions \ {code} |-> positions[c]]

_save_data(self) ==
    [self EXCEPT !.data_file = Some([positions |-> self.positions,
                                      transactions |-> self.transactions])]

\* The price not looked at
BuyRejectedOnQuantity(price, quantity) == quantity <= 0

\* Line 96
BuyRejected(price, quantity) == quantity <= 0 \/ price <= 0

\* Lines 105-126: the position after the purchase
Bought(positions, code, quantity, total_cost, fee) ==
    IF code \in DOMAIN positions
    THEN Position(positions[code].quantity + quantity,
                  IntDiv(positions[code].cost_amount + total_cost,
                         positions[code].quantity + quantity),
                  positions[code].cost_amount + total_cost,
                  positions[code].total_fee + fee)
    ELSE Position(quantity, IntDiv(total_cost, quantity), total_cost, fee)

\* Lines 99-150, with the fee computed
BuyWithFee(self, code, price, quantity, amount, fee) ==
    LET pos == Bought(self.positions, code, quantity, amount + fee, fee)
        tx == Transaction(code, "buy", price, quantity, amount, fee)
    IN  [self |-> _save_data([self EXCEPT !.positions = WithPosition(@, code, pos),
                                          !.transactions = Append(@, tx)]),
         result |-> [success |-> TRUE, transaction |-> tx, position |-> pos]]

\* [self: the service after the call, result: the dict returned]
buy(self, code, price, quantity) ==
    IF BuyRejected(price, quantity)
    THEN [self |-> self,
          result |-> [success |-> FALSE, message |-> "price and quantity must be above 0"]]
    ELSE BuyWithFee(self, code, price, quantity, price * quantity,
                    calculate_fee(price, quantity, FALSE))

\* The held quantity not compared
SellRejectionUnbounded(positions, code, price, quantity) ==
    IF code \notin DOMAIN positions THEN "not held"
    ELSE IF quantity <= 0 \/ price <= 0 THEN "price and quantity must be above 0"
    ELSE "none"

\* Lines 154-163: the message of the rejection, or "none"
SellRejection(positions, code, price, quantity) ==
    IF code \notin DOMAIN positions THEN "not held"
    ELSE IF quantity > positions[code].quantity THEN "quantity above the holding"
    ELSE IF quantity <= 0 \/ price <= 0 THEN "price and quantity must be above 0"
    ELSE "none"

\* Lines 171-186: the position after the sale
Sold(pos, quantity, fee) ==
    [pos EXCEPT !.quantity = @ - quantity,
                !.total_fee = @ + fee,
                !.cost_amount = IF pos.quantity - quantity = 0 THEN @
                                ELSE pos.cost_price * (pos.quantity - quantity)]

\* Lines 165-211, with the fee computed
SellWithFee(self, code, price, quantity, amount, fee) ==
    LET pos == Sold(self.positions[code], quantity, fee)
        tx == Transaction(code, "sell", price, quantity, amount, fee)
        positions == IF pos.quantity = 0 THEN WithoutPosition(self.positions, code)
                     ELSE WithPosition(self.positions, code, pos)
    IN  [self |-> _save_data([self EXCEPT !.positions = positions,
                                          !.transactions = Append(@, tx)]),
         result |-> [success |-> TRUE, transaction |-> tx,
                     profit |-> (amount - fee) - self.positions[code].cost_price * quantity,
                     remaining |-> IF code \in DOMAIN positions THEN pos.quantity ELSE 0]]

sell(self, code, price, quantity) ==
    IF SellRejection(self.positions, code, price, quantity) # "none"
    THEN [self |-> self,
          result |-> [success |-> FALSE,
                      message |-> SellRejection(self.positions, code, price, quantity)]]
    ELSE SellWithFee(self, code, price, quantity, price * quantity,
                     calculate_fee(price, quantity, TRUE))

\* BuyRequest and SellRequest: price and quantity are declared gt=0
RequestValid(request) == request.price > 0 /\ request.quantity > 0

\* What the handler answers for the dict the service returned
Answer(r) ==
    [self |-> r.self,
     result |-> IF r.result.success THEN Ok(r.result) ELSE Raise("HTTPException")]

buy_stock(self, request) ==
    IF ~RequestValid(request)
    THEN [self |-> self, result |-> Raise("RequestValidationError")]
    ELSE Answer(buy(self, request.code, request.price, request.quantity))

sell_stock(self, request) ==
    IF ~RequestValid(request)
    THEN [self |-> self, result |-> Raise("RequestValidationError")]
    ELSE Answer(sell(self, request.code, request.price, request.quantity))

\* ------------------------------------------------------- AlertService
\* The service is [alerts, last_alert_time]: last_alert_time maps each code that
\* has alerted to the time of its last alert.  Times are seconds of the wall
\* clock; names and message texts are left out.

alert_cooldown == 300

\* settings.alert_threshold_up, settings.alert_threshold_down
alert_threshold_up == Num(3)
alert_threshold_down == 0 - Num(3)

Alert(code, alert_type, price, change_percent, triggered_at) ==
    [code |-> code, alert_type |-> alert_type, current_price |-> price,
     change_percent |-> change_percent, triggered_at |-> triggered_at, is_sent |-> FALSE]

\* One cooldown shared by all codes
InCooldownOfAny(last_alert_time, code, now) ==
    \E c \in DOMAIN last_alert_time : now - last_alert_time[c] < alert_cooldown

\* Lines 39-40
InCooldown(last_alert_time, code, now) ==
    code \in DOMAIN last_alert_time /\ now - last_alert_time[code] < alert_cooldown

\* Lines 47-71: triggered_alerts
Triggered(code, price, change_percent, threshold_up, threshold_down, now) ==
    (IF change_percent >= threshold_up
     THEN <<Alert(code, "price_up", price, change_percent, now)>> ELSE <<>>)
    \o (IF change_percent <= threshold_down
        THEN <<Alert(code, "price_down", price, change_percent, now)>> ELSE <<>>)

\* Lines 73-77
Record(self, code, now, triggered_alerts) ==
    IF Len(triggered_alerts) > 0
    THEN [self |-> [alerts |-> self.alerts \o triggered_alerts,
                    last_alert_time |->
                        [c \in DOMAIN self.last_alert_time \cup {code} |->
                            IF c = code THEN now ELSE self.last_alert_time[c]]],
          triggered |-> triggered_alerts]
    ELSE [self |-> self, triggered |-> triggered_alerts]

\* [self: the service after the call, triggered: the list returned]
check_alerts(self, code, price, change_percent, alert_up, alert_down, now) ==
    IF InCooldown(self.last_alert_time, code, now)
    THEN [self |-> self, triggered |-> <<>>]
    ELSE Record(self, code, now,
                Triggered(code, price, change_percent,
                          IF IsNone(alert_up) THEN alert_threshold_up ELSE Val(alert_up),
                          IF IsNone(alert_down) THEN alert_threshold_down
                          ELSE Val(alert_down),
                          now))

\* mark_alert_sent on each alert of the list returned: they are the last
\* elements of self.alerts
MarkSent(r) ==
    [self |-> [r.self EXCEPT !.alerts =
                  [p \in 1..Len(r.self.alerts) |->
                      IF p > Len(r.self.alerts) - Len(r.triggered)
                      THEN [r.self.alerts[p] EXCEPT !.is_sent = TRUE]
                      ELSE r.self.alerts[p]]],
     triggered |-> [p \in 1..Len(r.triggered) |-> [r.triggered[p] EXCEPT !.is_sent = TRUE]]]

\* The loop of scheduled_check_alerts over the quotes of the watch list:
\* [self, printed: the alerts printed]
RECURSIVE CheckQuotes(_, _, _)
CheckQuotes(self, quotes, now) ==
    IF quotes = <<>> THEN [self |-> self, printed |-> <<>>]
    ELSE LET q == Head(quotes)
             r == MarkSent(check_alerts(self, q.code, q.price, q.change_percent,
                                        q.alert_up, q.alert_down, now))
             rest == CheckQuotes(r.self, Tail(quotes), now)
         IN  [self |-> rest.self, printed |-> r.triggered \o rest.printed]

scheduled_check_alerts(self, quotes, now) == CheckQuotes(self, quotes, now)

VARIABLES
    pc,     \* "idle", or "returned" once a call has returned or raised
    op,     \* the method called
    args,   \* its arguments
    ret,    \* its outcome: [exc, val], or the handler's response
    ran,    \* the calculators calculate_all_indicators invoked, in order
    positions,      \* portfolio_service.positions
    transactions,   \* portfolio_service.transactions
    data_file,      \* portfolio.json
    alerts,             \* alert_service.alerts
    last_alert_time,    \* alert_service.last_alert_time
    now                 \* datetime.now(), in seconds

vars == <<pc, op, args, ret, ran, positions, transactions, data_file,
          alerts, last_alert_time, now>>

alerting == <<alerts, last_alert_time, now>>

portfolio == <<positions, transactions, data_file>>

\* No portfolio.json: the service starts empty (lines 49-51)
NoPositions == [c \in {} |-> Position(0, 0, 0, 0)]

\* Lines 15-19 of alert_service.py
NoAlertTimes == [c \in {} |-> 0]

Init ==
    /\ pc = "idle" /\ op = "none" /\ args = <<>> /\ ret = <<>> /\ ran = <<>>
    /\ positions = NoPositions /\ transactions = <<>> /\ data_file = None
    /\ alerts = <<>> /\ last_alert_time = NoAlertTimes /\ now = 0

\* Each call is made while no call is in progress; it returns or raises, and its
\* outcome is handed to the caller.

MaReturns(prices, period, r) ==
    /\ pc = "idle"
    /\ pc' = "returned"
    /\ op' = "calculate_ma"
    /\ args' = [prices |-> prices, period |-> period]
    /\ ret' = Ok(r)
    /\ ran' = <<>>
    /\ UNCHANGED <<portfolio, alerting>>

CallMa ==
    /\ pc = "idle"
    /\ \E prices \in Lists(SmallPrices, MaxList), period \in 1..MaxPeriod :
        MaReturns(prices, period, calculate_ma(prices, period))

EmaReturns(prices, period, r) ==
    /\ pc = "idle"
    /\ pc' = "returned"
    /\ op' = "calculate_ema"
    /\ args' = [prices |-> prices, period |-> period]
    /\ ret' = Ok(r)
    /\ ran' = <<>>
    /\ UNCHANGED <<portfolio, alerting>>

CallEma ==
    /\ pc = "idle"
    /\ \E prices \in Lists(SmallPrices, MaxList), period \in 1..MaxPeriod :
        EmaReturns(prices, period, calculate_ema(prices, period))

MacdSignalsReturn(dif, dea, r) ==
    /\ pc = "idle"
    /\ pc' = "returned"
    /\ op' = "_get_macd_signals"
    /\ args' = [dif |-> dif, dea |-> dea]
    /\ ret' = Ok(r)
    /\ ran' = <<>>
    /\ UNCHANGED <<portfolio, alerting>>

CallMacdSignals ==
    /\ pc = "idle"
    /\ \E n \in 0..MaxSignals :
        \E dif \in [1..n -> MacdLineValues], dea \in [1..n -> MacdLineValues] :
            MacdSignalsReturn(dif, dea, _get_macd_signals(dif, dea, <<>>))

KdjSignalsReturn(k, d, r) ==
    /\ pc = "idle"
    /\ pc' = "returned"
    /\ op' = "_get_kdj_signals"
    /\ args' = [k |-> k, d |-> d]
    /\ ret' = r
    /\ ran' = <<>>
    /\ UNCHANGED <<portfolio, alerting>>

\* The lines as calculate_kdj builds them: `lead` warm-up entries of None first
KdjSignalsCall(k, d) == KdjSignalsReturn(k, d, _get_kdj_signals(k, d, <<>>))

CallKdjSignals ==
    /\ pc = "idle"
    /\ \E n \in 0..MaxSignals, lead \in 0..MaxLead :
        \E k \in [1..n -> KdjLineValues], d \in [1..n -> KdjLineValues] :
            KdjSignalsCall(Repeat(None, lead) \o k, Repeat(None, lead) \o d)

MacdReturns(prices, r) ==
    /\ pc = "idle"
    /\ pc' = "returned"
    /\ op' = "calculate_macd"
    /\ args' = [prices |-> prices]
    /\ ret' = Ok(r)
    /\ ran' = <<>>
    /\ UNCHANGED <<portfolio, alerting>>

CallMacd ==
    /\ pc = "idle"
    /\ \E sh \in Shapes, n \in 0..MaxBars :
        MacdReturns(Closes(sh, n),
                    calculate_macd(Closes(sh, n), FastPeriod, SlowPeriod, SignalPeriod))

KdjReturns(high, low, close, period, r) ==
    /\ pc = "idle"
    /\ pc' = "returned"
    /\ op' = "calculate_kdj"
    /\ args' = [high |-> high, low |-> low, close |-> close, period |-> period]
    /\ ret' = r
    /\ ran' = <<>>
    /\ UNCHANGED <<portfolio, alerting>>

KdjCall(bars, period) ==
    KdjReturns(Column(bars, "high"), Column(bars, "low"), Column(bars, "close"), period,
               calculate_kdj(Column(bars, "high"), Column(bars, "low"),
                             Column(bars, "close"), period, KPeriod, DPeriod))

\* The bars with every close moved by `shift` steps; beyond `spread` steps the
\* close lies outside its bar's low..high
ShiftClose(bars, shift) ==
    [p \in 1..Len(bars) |->
        [bars[p] EXCEPT !.close = Field(bars[p].close.v + shift * Step)]]

CallKdj ==
    /\ pc = "idle"
    /\ \E sh \in Shapes, n \in 0..MaxBars, spread \in 0..1, period \in {1, KdjPeriod},
          shift \in (0 - MaxShift)..MaxShift :
        KdjCall(ShiftClose(Bars(sh, n, spread), shift), period)

RsiReturns(prices, r) ==
    /\ pc = "idle"
    /\ pc' = "returned"
    /\ op' = "calculate_rsi"
    /\ args' = [prices |-> prices]
    /\ ret' = Ok(r)
    /\ ran' = <<>>
    /\ UNCHANGED <<portfolio, alerting>>

\* One swing up and one down, in hundredths, after which the price stays: the
\* first RSI is 100 * up / (up + down), here at, or just off, 50, 70 and 30
Swings == {<<10000, 10000>>, <<9999, 10000>>, <<69999, 30001>>, <<30001, 69999>>}

Swing(m, n) ==
    [p \in 1..n |->
        Num(1000) + (IF p = 1 THEN 0 ELSE IF p = 2 THEN m[1] ELSE m[1] - m[2]) * Unit2]

RsiSeries ==
    {Closes(sh, n) : sh \in Shapes, n \in 0..MaxBars}
    \cup {Swing(m, n) : m \in Swings, n \in 0..MaxBars}

CallRsi ==
    /\ pc = "idle"
    /\ \E prices \in RsiSeries :
        RsiReturns(prices, calculate_rsi(prices, RsiPeriod))

BollReturns(prices, r) ==
    /\ pc = "idle"
    /\ pc' = "returned"
    /\ op' = "calculate_boll"
    /\ args' = [prices |-> prices]
    /\ ret' = Ok(r)
    /\ ran' = <<>>
    /\ UNCHANGED <<portfolio, alerting>>

\* Closing prices in hundredths: `early` bars at 10 + rise / 100, then bars at
\* 10.00, and from the last bar of the first window on bars at 10 + last / 100
Clusters == {[early |-> 5, rise |-> 50, last |-> 64], [early |-> 14, rise |-> 50, last |-> 0 - 14]}

Cluster(c, n) ==
    [p \in 1..n |->
        Num(10) + (IF p <= c.early THEN c.rise ELSE IF p < BollPeriod THEN 0 ELSE c.last) * Unit2]

BollSeries ==
    {Closes(sh, n) : sh \in Shapes, n \in 0..MaxBars}
    \cup {Cluster(c, n) : c \in Clusters, n \in 0..MaxBars}

CallBoll ==
    /\ pc = "idle"
    /\ \E prices \in BollSeries :
        BollReturns(prices, calculate_boll(prices, BollPeriod, BollStdDev))

\* kline_data is None (n < 0), or a list of n bars
KlineInputs(n, sh, spread) == IF n < 0 THEN None ELSE Some(Bars(sh, n, spread))

\* What the caller's series may lack: a numeric close (bar 2), ascending dates
\* (bars 1 and 2 swapped), distinct dates (bar 2 dated as bar 1)
Defects == {"none", "non_numeric", "unsorted", "duplicate"}

WithDefect(kline_data, defect) ==
    IF IsNone(kline_data) \/ defect = "none" THEN kline_data
    ELSE IF Len(Val(kline_data)) < 2 THEN kline_data
    ELSE Some([p \in 1..Len(Val(kline_data)) |->
                 CASE defect = "non_numeric" /\ p = 2 ->
                          [Val(kline_data)[p] EXCEPT !.close = NotANumber]
                   [] defect = "unsorted" /\ p \in {1, 2} ->
                          [Val(kline_data)[p] EXCEPT !.date = 3 - p]
                   [] defect = "duplicate" /\ p = 2 ->
                          [Val(kline_data)[p] EXCEPT !.date = 1]
                   [] OTHER -> Val(kline_data)[p]])

\* The outcome of calculate_all_indicators and, apart, its call log
AllReturns(kline_data, r) ==
    /\ pc = "idle"
    /\ pc' = "returned"
    /\ op' = "calculate_all_indicators"
    /\ args' = [kline_data |-> kline_data]
    /\ ret' = [exc |-> r.exc, val |-> r.val]
    /\ ran' = r.ran
    /\ UNCHANGED <<portfolio, alerting>>

AllCall(kline_data) == AllReturns(kline_data, calculate_all_indicators(kline_data))

CallAll ==
    /\ pc = "idle"
    /\ \E sh \in Shapes, n \in -1..MaxBars, spread \in 0..1, defect \in Defects :
        AllCall(WithDefect(KlineInputs(n, sh, spread), defect))

\* The handler's response and, apart, the call log of the service
Responds(kline_data, r) ==
    /\ pc = "idle"
    /\ pc' = "returned"
    /\ op' = "get_technical_analysis"
    /\ args' = [kline_data |-> kline_data]
    /\ ret' = [status |-> r.status, called |-> r.called, body |-> r.body]
    /\ ran' = r.ran
    /\ UNCHANGED <<portfolio, alerting>>

Request ==
    /\ pc = "idle"
    /\ \E sh \in Shapes, n \in -1..MaxBars, spread \in 0..1 :
        Responds(KlineInputs(n, sh, spread),
                 get_technical_analysis(KlineInputs(n, sh, spread)))

LatestSignalsReturn(macd, kdj, rsi, boll, ma5, ma10, ma20, closes, r) ==
    /\ pc' = "returned"
    /\ op' = "_get_latest_signals"
    /\ args' = [macd |-> macd, kdj |-> kdj, rsi |-> rsi, boll |-> boll,
                ma5 |-> ma5, ma10 |-> ma10, ma20 |-> ma20, closes |-> closes]
    /\ ret' = Ok(r)
    /\ ran' = <<>>
    /\ UNCHANGED <<portfolio, alerting>>

LatestSignalsCall(macd, kdj, rsi, boll, ma5, ma10, ma20, closes) ==
    LatestSignalsReturn(macd, kdj, rsi, boll, ma5, ma10, ma20, closes,
                        _get_latest_signals(macd, kdj, rsi, boll, ma5, ma10, ma20, closes))

\* What the arrays hold before their last element: nothing, or one bar of a
\* rising or of a falling market
Earlier == {"none", "bull", "bear"}

EarlierMacd(e) == LatestMacd(IF e = "bull" THEN "golden_cross" ELSE "death_cross", e = "none")
EarlierKdj(e) == LatestKdj(IF e = "bull" THEN "oversold_cross" ELSE "overbought_cross", e = "none")
EarlierRsi(e) == LatestRsi(IF e = "bull" THEN "oversold" ELSE "overbought", e = "none")
EarlierBoll(e) == LatestBoll(IF e = "bull" THEN "oversold" ELSE "overbought", e = "none")
EarlierAlignment(e) == CHOOSE a \in Alignments : a.kind = (IF e = "bull" THEN "bull" ELSE "bear")

\* Two results of a calculator, one after the other
Joined(x, y) == [f \in DOMAIN x |-> x[f] \o y[f]]

CallLatestSignals ==
    /\ pc = "idle"
    /\ \E m \in MacdLabels, k \in KdjLabels, r \in RsiLabels, b \in BollLabels,
          a \in Alignments, empty \in BOOLEAN, e \in Earlier :
        LatestSignalsCall(Joined(EarlierMacd(e), LatestMacd(m, empty)),
                          Joined(EarlierKdj(e), LatestKdj(k, empty)),
                          Joined(EarlierRsi(e), LatestRsi(r, empty)),
                          Joined(EarlierBoll(e), LatestBoll(b, empty)),
                          OneOrNone(e = "none", EarlierAlignment(e).ma5)
                              \o OneOrNone(empty, a.ma5),
                          OneOrNone(e = "none", EarlierAlignment(e).ma10)
                              \o OneOrNone(empty, a.ma10),
                          OneOrNone(e = "none", None) \o OneOrNone(empty, None),
                          OneOrNone(e = "none", EarlierAlignment(e).close)
                              \o OneOrNone(empty, a.close))

\* The caller has taken the outcome; nothing of the call is kept
Discard ==
    /\ pc = "returned"
    /\ pc' = "idle"
    /\ op' = "none"
    /\ args' = <<>>
    /\ ret' = <<>>
    /\ ran' = <<>>
    /\ UNCHANGED <<portfolio, alerting>>

\* ------------------------------------------------------- the portfolio
MaxTrades == 4

Codes == {"600000", "000001"}
TradePrices == {0 - Num(1), 0, Num(10)}
TradeQuantities == {0 - 1, 0, 1, 2}

Service == [positions |-> positions, transactions |-> transactions, data_file |-> data_file]

PortfolioReturns(name, a, r) ==
    /\ pc' = "returned"
    /\ op' = name
    /\ args' = a
    /\ ret' = r.result
    /\ ran' = <<>>
    /\ positions' = r.self.positions
    /\ transactions' = r.self.transactions
    /\ data_file' = r.self.data_file
    /\ UNCHANGED alerting

CallBuy ==
    /\ pc = "idle"
    /\ Len(transactions) < MaxTrades
    /\ \E code \in Codes, price \in TradePrices, quantity \in TradeQuantities :
        PortfolioReturns("buy", [code |-> code, price |-> price, quantity |-> quantity],
                         buy(Service, code, price, quantity))

CallSell ==
    /\ pc = "idle"
    /\ Len(transactions) < MaxTrades
    /\ \E code \in Codes, price \in TradePrices, quantity \in TradeQuantities :
        PortfolioReturns("sell", [code |-> code, price |-> price, quantity |-> quantity],
                         sell(Service, code, price, quantity))

PostBuy ==
    /\ pc = "idle"
    /\ Len(transactions) < MaxTrades
    /\ \E code \in Codes, price \in TradePrices, quantity \in TradeQuantities :
        PortfolioReturns("buy_stock", [code |-> code, price |-> price, quantity |-> quantity],
                         buy_stock(Service, [code |-> code, price |-> price,
                                             quantity |-> quantity]))

PostSell ==
    /\ pc = "idle"
    /\ Len(transactions) < MaxTrades
    /\ \E code \in Codes, price \in TradePrices, quantity \in TradeQuantities :
        PortfolioReturns("sell_stock", [code |-> code, price |-> price, quantity |-> quantity],
                         sell_stock(Service, [code |-> code, price |-> price,
                                              quantity |-> quantity]))


\* ------------------------------------------------------- the alerts
MaxAlerts == 2
MaxQuotes == 2
MaxTime == 400

\* The seconds that pass between two calls
Steps == {100, 199}

Changes == {0 - Num(3), 0, Num(3)}

\* A watch item's alert_up and alert_down: not set, or both set to 0
Thresholds == {[alert_up |-> None, alert_down |-> None],
               [alert_up |-> Some(0), alert_down |-> Some(0)]}

\* A quote of the watch list with its watch item's thresholds: any change under
\* the default thresholds, no change under thresholds of 0
Quotes ==
    {q \in {[code |-> code, price |-> Num(10), change_percent |-> change,
             alert_up |-> t.alert_up, alert_down |-> t.alert_down] :
                code \in Codes, change \in Changes, t \in Thresholds} :
        IsNone(q.alert_up) \/ q.change_percent = 0}

Alerting == [alerts |-> alerts, last_alert_time |-> last_alert_time]

AlertReturns(name, a, self, r) ==
    /\ pc' = "returned"
    /\ op' = name
    /\ args' = a
    /\ ret' = Ok(r)
    /\ ran' = <<>>
    /\ alerts' = self.alerts
    /\ last_alert_time' = self.last_alert_time
    /\ UNCHANGED <<now, portfolio>>

CheckAlertsCall(q, r) == AlertReturns("check_alerts", q, r.self, r.triggered)

CallCheckAlerts ==
    /\ pc = "idle"
    /\ Len(alerts) < MaxAlerts
    /\ \E q \in Quotes :
        CheckAlertsCall(q, check_alerts(Alerting, q.code, q.price, q.change_percent,
                                        q.alert_up, q.alert_down, now))

ScheduledCall(quotes, r) ==
    AlertReturns("scheduled_check_alerts", [quotes |-> quotes], r.self, r.printed)

ScheduledCheck ==
    /\ pc = "idle"
    /\ Len(alerts) < MaxAlerts
    /\ \E quotes \in Lists(Quotes, MaxQuotes) :
        ScheduledCall(quotes, scheduled_check_alerts(Alerting, quotes, now))

\* clear_alerts: the list is emptied, the times of the last alerts stay
ClearAlerts ==
    /\ pc = "idle"
    /\ AlertReturns("clear_alerts", <<>>, [Alerting EXCEPT !.alerts = <<>>], <<>>)

Tick ==
    /\ pc = "idle"
    /\ \E step \in Steps :
        /\ now + step <= MaxTime
        /\ now' = now + step
    /\ UNCHANGED <<pc, op, args, ret, ran, portfolio, alerts, last_alert_time>>

Next ==
    \/ CallMa
    \/ CallEma
    \/ CallMacdSignals
    \/ CallKdjSignals
    \/ CallMacd
    \/ CallKdj
    \/ CallRsi
    \/ CallBoll
    \/ CallAll
    \/ Request
    \/ CallLatestSignals
    \/ Discard

Spec == Init /\ [][Next]_vars

\* The portfolio service and its two handlers
PortfolioNext ==
    \/ CallBuy
    \/ CallSell
    \/ PostBuy
    \/ PostSell
    \/ Discard

PortfolioSpec == Init /\ [][PortfolioNext]_vars

\* The alert service, the scheduled job that calls it, and the clock
AlertNext ==
    \/ CallCheckAlerts
    \/ ScheduledCheck
    \/ ClearAlerts
    \/ Tick
    \/ Discard

AlertSpec == Init /\ [][AlertNext]_vars

\* ------------------------------------------------------- claims

Done(name) == pc = "returned" /\ op = name

\* len(kline_data), or -1 for None
NBars == IF IsNone(args.kline_data) THEN -1 ELSE Len(Val(args.kline_data))

C2_Original ==
    (Done("calculate_all_indicators") /\ NBars < SlowPeriod + SignalPeriod)
        => /\ ret.exc = "none"
           /\ "error" \in DOMAIN ret.val
           /\ ran = <<>>

\* xs[i] for 0 <= i < len(xs) is None
Undef(xs, i) == IsNone(At(xs, i))

\* C3 (as claimed): both classifiers return normally on every input and label
\* index i neutral whenever i = 0 or a line is undefined at i or at i - 1.
C3_Original ==
    /\ Done("_get_macd_signals") =>
          /\ ret.exc = "none"
          /\ \A i \in 0..(Len(args.dif) - 1) :
                (i = 0 \/ Undef(args.dif, i) \/ Undef(args.dea, i)
                       \/ Undef(args.dif, i - 1) \/ Undef(args.dea, i - 1))
                    => At(ret.val, i) = "neutral"
    /\ Done("_get_kdj_signals") =>
          /\ ret.exc = "none"
          /\ \A i \in 0..(Len(args.k) - 1) :
                (i = 0 \/ Undef(args.k, i) \/ Undef(args.d, i)
                       \/ Undef(args.k, i - 1) \/ Undef(args.d, i - 1))
                    => At(ret.val, i) = "neutral"
    /\ Done("calculate_kdj") => ret.exc = "none"
    /\ Done("calculate_macd") => ret.exc = "none"

\* every named array of the record has length n
AllLen(r, names, n) == \A f \in names : Len(r[f]) = n

\* C4 (as claimed): every calculator returns, for a series of n bars, arrays of
\* length exactly n.
C4_Original ==
    /\ Done("calculate_macd") =>
          AllLen(ret.val, {"dif", "dea", "macd", "signal"}, Len(args.prices))
    /\ Done("calculate_kdj") =>
          /\ ret.exc = "none"
          /\ AllLen(ret.val, {"k", "d", "j", "signal"}, Len(args.close))
    /\ Done("calculate_rsi") => AllLen(ret.val, {"rsi", "signal"}, Len(args.prices))
    /\ Done("calculate_boll") =>
          AllLen(ret.val, {"upper", "middle", "lower", "signal"}, Len(args.prices))
    /\ Done("calculate_ma") => Len(ret.val) = Len(args.prices)
    /\ Done("calculate_ema") => Len(ret.val) = Len(args.prices)

\* C5: calculate_ma(prices, p) has the length of prices, is None at every index
\* below p - 1, and at every index i >= p - 1 is the mean of prices[i-p+1 .. i].
C5_MaWarmUp ==
    Done("calculate_ma") =>
        /\ ret.exc = "none"
        /\ Len(ret.val) = Len(args.prices)
        /\ \A i \in 0..(Len(args.prices) - 1) :
              IF i < args.period - 1
              THEN At(ret.val, i) = None
              ELSE At(ret.val, i) =
                      Some(IntDiv(Sum([q \in 1..args.period |->
                                          At(args.prices, i - args.period + q)]),
                                  args.period))

C5_Witness ==
    /\ Done("calculate_ma")
    /\ args.period = 2
    /\ args.prices = <<Num(1), Num(2), Num(4)>>
    /\ ret.val = <<None, Some(3 * (ONE \div 2)), Some(Num(3))>>

\* the 20-bar window ending at index i, its mean and its population variance
BollWindow(i) == [q \in 1..BollPeriod |-> At(args.prices, i - BollPeriod + q)]

BollMean(i) == IntDiv(Sum(BollWindow(i)), BollPeriod)

BollVariance(i) ==
    IntDiv(Sum([q \in 1..BollPeriod |->
                   FMul(BollWindow(i)[q] - BollMean(i), BollWindow(i)[q] - BollMean(i))]),
           BollPeriod)

BollOrderedAt(i) ==
    LET up == Val(At(ret.val.upper, i))
        mid == Val(At(ret.val.middle, i))
        lo == Val(At(ret.val.lower, i))
        w == up - mid
    IN  /\ lo <= mid
        /\ mid <= up
        /\ mid = RoundTo(BollMean(i), Unit4)
        /\ Abs((up - mid) - (mid - lo)) <= Unit4
        /\ Abs(FMul(w, w) - 4 * BollVariance(i)) <= FMul(2 * w, Unit4) + Unit4

\* C7: at every index i >= 19 of calculate_boll's result the bands are defined and
\* lower[i] <= middle[i] <= upper[i]; middle is the mean of the 20-bar window and
\* both band widths are twice the population standard deviation of that window
\* (to the rounding of the outputs); below index 19 the bands are undefined.
C7_BollOrdering ==
    Done("calculate_boll") =>
        /\ ret.exc = "none"
        /\ \A i \in 0..(Len(args.prices) - 1) :
              IF i < BollPeriod - 1
              THEN Undef(ret.val.upper, i) /\ Undef(ret.val.middle, i) /\ Undef(ret.val.lower, i)
              ELSE /\ ~Undef(ret.val.upper, i)
                   /\ ~Undef(ret.val.middle, i)
                   /\ ~Undef(ret.val.lower, i)
                   /\ BollOrderedAt(i)

C7_Witness ==
    /\ Done("calculate_boll")
    /\ Len(args.prices) > BollPeriod
    /\ Val(At(ret.val.lower, BollPeriod)) < Val(At(ret.val.middle, BollPeriod))
    /\ Val(At(ret.val.middle, BollPeriod)) < Val(At(ret.val.upper, BollPeriod))

NonDecreasing(xs) == \A p \in 2..Len(xs) : xs[p] >= xs[p - 1]

\* C8: on a non-decreasing series of at least 15 bars calculate_rsi returns
\* normally, rsi is undefined at indices 0..13 and is 100.0 at index 14 and at
\* every later index.
C8_RsiZeroLoss ==
    (Done("calculate_rsi") /\ Len(args.prices) >= RsiPeriod + 1 /\ NonDecreasing(args.prices))
        => /\ ret.exc = "none"
           /\ Len(ret.val.rsi) = Len(args.prices)
           /\ \A i \in 0..(Len(args.prices) - 1) :
                 IF i < RsiPeriod THEN Undef(ret.val.rsi, i)
                 ELSE At(ret.val.rsi, i) = Some(Num(100))

\* a rising series with unchanged bars in it, and bars after the seed
C8_Witness ==
    /\ Done("calculate_rsi")
    /\ Len(args.prices) = RsiPeriod + 6
    /\ NonDecreasing(args.prices)
    /\ \E p \in 2..Len(args.prices) : args.prices[p] = args.prices[p - 1]
    /\ \E p \in 2..Len(args.prices) : args.prices[p] > args.prices[p - 1]
    /\ Last(ret.val.rsi) = Some(Num(100))

\* every 9-bar window ending at or after index 8 has its highest high equal to its
\* lowest low
FlatWindows ==
    \A i \in (KdjPeriod - 1)..(Len(args.close) - 1) :
        \A q, r \in 1..KdjPeriod :
            At(args.high, i - KdjPeriod + q) = At(args.low, i - KdjPeriod + r)

Defined4(dif, dea, i) ==
    /\ i >= 1
    /\ ~Undef(dif, i) /\ ~Undef(dea, i) /\ ~Undef(dif, i - 1) /\ ~Undef(dea, i - 1)

CrossUp(dif, dea, i) ==
    Val(At(dif, i - 1)) < Val(At(dea, i - 1)) /\ Val(At(dif, i)) > Val(At(dea, i))

CrossDown(dif, dea, i) ==
    Val(At(dif, i - 1)) > Val(At(dea, i - 1)) /\ Val(At(dif, i)) < Val(At(dea, i))

\* the same with the equalities that rounding to 4 decimals can produce
TouchUp(dif, dea, i) ==
    Val(At(dif, i - 1)) <= Val(At(dea, i - 1)) /\ Val(At(dif, i)) >= Val(At(dea, i))

TouchDown(dif, dea, i) ==
    Val(At(dif, i - 1)) >= Val(At(dea, i - 1)) /\ Val(At(dif, i)) <= Val(At(dea, i))

\* C10: where dif and dea are defined at i - 1 and i, _get_macd_signals labels i
\* golden_cross exactly when dif crosses from below to above dea, death_cross
\* exactly when it crosses from above to below, and it gives neither label at any
\* other index.  In calculate_macd's result, whose lines are rounded after the
\* labels were set, a crossing of the returned lines is labelled as a cross, and
\* a cross label sits only where the returned lines cross or touch.
C10_MacdCross ==
    /\ Done("_get_macd_signals") =>
          \A i \in 0..(Len(args.dif) - 1) :
              IF Defined4(args.dif, args.dea, i)
              THEN /\ At(ret.val, i) = "golden_cross" <=> CrossUp(args.dif, args.dea, i)
                   /\ At(ret.val, i) = "death_cross" <=> CrossDown(args.dif, args.dea, i)
              ELSE At(ret.val, i) \notin {"golden_cross", "death_cross"}
    /\ Done("calculate_macd") =>
          \A i \in 0..(Len(args.prices) - 1) :
              IF Defined4(ret.val.dif, ret.val.dea, i)
              THEN /\ CrossUp(ret.val.dif, ret.val.dea, i)
                         => At(ret.val.signal, i) = "golden_cross"
                   /\ CrossDown(ret.val.dif, ret.val.dea, i)
                         => At(ret.val.signal, i) = "death_cross"
                   /\ At(ret.val.signal, i) = "golden_cross"
                         => TouchUp(ret.val.dif, ret.val.dea, i)
                   /\ At(ret.val.signal, i) = "death_cross"
                         => TouchDown(ret.val.dif, ret.val.dea, i)
              ELSE At(ret.val.signal, i) \notin {"golden_cross", "death_cross"}

C10_Witness ==
    /\ Done("calculate_macd")
    /\ Len(args.prices) = SlowPeriod + SignalPeriod + 1
    /\ CrossUp(ret.val.dif, ret.val.dea, SlowPeriod + SignalPeriod)
    /\ Last(ret.val.signal) = "golden_cross"

\* the label and colour pairs of lines 488-503
ColorOf(label) ==
    CASE label = "strong_bull" -> "#52c41a"
      [] label = "mild_bull" -> "#73d13d"
      [] label = "strong_bear" -> "#f5222d"
      [] label = "mild_bear" -> "#ff7875"
      [] label = "neutral" -> "#faad14"

\* C11: the overall label of _get_latest_signals is fixed by bullish_count -
\* bearish_count alone: strong bull iff the difference is >= 3, mild bull iff it is
\* 1 or 2, neutral iff 0, mild bear iff -1 or -2, strong bear iff <= -3; the label
\* is one of these five and overall_color is the colour of the label.
C11_OverallLabel ==
    Done("_get_latest_signals") =>
        LET diff == ret.val.bullish_count - ret.val.bearish_count
            label == ret.val.overall
        IN  /\ label \in {"strong_bull", "mild_bull", "neutral", "mild_bear", "strong_bear"}
            /\ label = "strong_bull" <=> diff >= 3
            /\ label = "mild_bull" <=> diff \in {1, 2}
            /\ label = "neutral" <=> diff = 0
            /\ label = "mild_bear" <=> diff \in {-1, -2}
            /\ label = "strong_bear" <=> diff <= -3
            /\ ret.val.overall_color = ColorOf(label)

\* a lead of two with both counters positive: mild, not strong
C11_Witness ==
    /\ Done("_get_latest_signals")
    /\ ret.val.bullish_count = 3
    /\ ret.val.bearish_count = 1
    /\ ret.val.overall = "mild_bull"

\* the scoring table: [bull, bear] of a family's latest label
Score(family, label) ==
    CASE family = "MACD" /\ label = "golden_cross" -> <<2, 0>>
      [] family = "MACD" /\ label = "death_cross" -> <<0, 2>>
      [] family = "MACD" /\ label = "bullish" -> <<1, 0>>
      [] family = "MACD" /\ label = "bearish" -> <<0, 1>>
      [] family = "KDJ" /\ label = "oversold_cross" -> <<2, 0>>
      [] family = "KDJ" /\ label = "overbought_cross" -> <<0, 2>>
      [] family = "KDJ" /\ label = "golden_cross" -> <<1, 0>>
      [] family = "KDJ" /\ label = "death_cross" -> <<0, 1>>
      [] family = "RSI" /\ label = "oversold" -> <<1, 0>>
      [] family = "RSI" /\ label = "overbought" -> <<0, 1>>
      [] OTHER -> <<0, 0>>

\* the latest label of a family's result in the arguments
LatestLabel(family) == LastOr(args[family].signal, "neutral")

\* the alignment of the last close with the 5- and 10-bar averages
MaScore ==
    IF Len(args.closes) = 0 \/ IsNone(Last(args.ma5)) \/ IsNone(Last(args.ma10))
    THEN <<0, 0>>
    ELSE IF Last(args.closes) > Val(Last(args.ma5))
             /\ Val(Last(args.ma5)) > Val(Last(args.ma10)) THEN <<1, 0>>
    ELSE IF Last(args.closes) < Val(Last(args.ma5))
             /\ Val(Last(args.ma5)) < Val(Last(args.ma10)) THEN <<0, 1>>
    ELSE <<0, 0>>

\* the entries of the result's signals list for one indicator
EntriesOf(indicator) ==
    {p \in 1..Len(ret.val.signals) : ret.val.signals[p].indicator = indicator}

\* C12: bullish_count and bearish_count are the sums of the scoring table over
\* the latest MACD, KDJ and RSI labels and the MA alignment; KDJ and BOLL
\* overbought/oversold add exactly one warning entry each and score nothing; MACD
\* golden_cross + KDJ oversold_cross + RSI oversold without MA alignment gives
\* 5 : 0 and the strong-bull label.
C12_ScoringTable ==
    Done("_get_latest_signals") =>
        /\ \A side \in 1..2 :
              (IF side = 1 THEN ret.val.bullish_count ELSE ret.val.bearish_count) =
                  Score("MACD", LatestLabel("macd"))[side]
                  + Score("KDJ", LatestLabel("kdj"))[side]
                  + Score("RSI", LatestLabel("rsi"))[side]
                  + MaScore[side]
        /\ LatestLabel("kdj") \in {"overbought", "oversold"}
              => /\ Cardinality(EntriesOf("KDJ")) = 1
                 /\ \A p \in EntriesOf("KDJ") : ret.val.signals[p].type = "warning"
        /\ LatestLabel("boll") \in {"overbought", "oversold"}
              => /\ Cardinality(EntriesOf("BOLL")) = 1
                 /\ \A p \in EntriesOf("BOLL") : ret.val.signals[p].type = "warning"
        /\ LatestLabel("boll") \notin {"overbought", "oversold"} => EntriesOf("BOLL") = {}

C12_Witness ==
    /\ Done("_get_latest_signals")
    /\ LatestLabel("macd") = "golden_cross"
    /\ LatestLabel("kdj") = "oversold_cross"
    /\ LatestLabel("rsi") = "oversold"
    /\ LatestLabel("boll") = "oversold"
    /\ MaScore = <<0, 0>>
    /\ Len(args.closes) = 1
    /\ ret.val.bullish_count = 5
    /\ ret.val.bearish_count = 0
    /\ ret.val.overall = "strong_bull"

\* the bars of the call's argument
ArgBars == Val(args.kline_data)

\* every price and volume field of every bar is a number
NumericFields ==
    \A p \in 1..Len(ArgBars) :
        \A f \in {"open", "high", "low", "close", "volume"} : ArgBars[p][f].num

\* the dates ascend strictly: sorted, and no date twice
AscendingDates == \A p \in 2..Len(ArgBars) : ArgBars[p - 1].date < ArgBars[p].date

\* C13 (as claimed): a series of at least 30 bars with a non-numeric field, with
\* dates out of order or with a date twice is answered with an error result,
\* without indicator arrays, before any calculator has run.
C13_Original ==
    (Done("calculate_all_indicators") /\ NBars >= MinBars
        /\ ~(NumericFields /\ AscendingDates))
        => /\ ret.exc = "none"
           /\ "error" \in DOMAIN ret.val
           /\ "indicators" \notin DOMAIN ret.val
           /\ ran = <<>>

\* C14 (as claimed): a call on a well-formed series of at least 30 bars returns
\* dates and prices.open/high/low/close/volume that repeat the input bars field
\* by field, in order; the caller's list, held in args, is what it was.
C14_Original ==
    (Done("calculate_all_indicators") /\ NBars >= MinBars
        /\ NumericFields /\ AscendingDates)
        => /\ ret.exc = "none"
           /\ {"dates", "prices"} \subseteq DOMAIN ret.val
           /\ ret.val.dates = [p \in 1..NBars |-> ArgBars[p].date]
           /\ \A f \in {"open", "high", "low", "close", "volume"} :
                 ret.val.prices[f] = [p \in 1..NBars |-> ArgBars[p][f].v]

\* every defined entry is a multiple of `unit`
OnGrid(xs, unit) == \A p \in 1..Len(xs) : IsNone(xs[p]) \/ Val(xs[p]) % unit = 0

\* the entries at indices below `first`, and no others, are undefined
DefinedFrom(xs, first) == \A p \in 1..Len(xs) : IsNone(xs[p]) <=> p - 1 < first

\* C15: every defined value a calculator returns is a multiple of its family's
\* precision: 0.0001 for MACD dif/dea/macd and BOLL upper/middle/lower, 0.01 for
\* KDJ k/d/j and RSI; the entries of the warm-up stay undefined after rounding.
C15_Rounding ==
    /\ Done("calculate_macd") =>
          /\ \A f \in {"dif", "dea", "macd"} : OnGrid(ret.val[f], Unit4)
          /\ Len(args.prices) < SlowPeriod + SignalPeriod
                => \A f \in {"dif", "dea", "macd"} : DefinedFrom(ret.val[f], Len(args.prices))
          /\ Len(args.prices) >= SlowPeriod + SignalPeriod
                => /\ DefinedFrom(ret.val.dif, SlowPeriod - 1)
                   /\ DefinedFrom(ret.val.dea, SlowPeriod + SignalPeriod - 2)
    /\ Done("calculate_boll") =>
          /\ \A f \in {"upper", "middle", "lower"} : OnGrid(ret.val[f], Unit4)
          /\ \A f \in {"upper", "middle", "lower"} :
                DefinedFrom(ret.val[f], IF Len(args.prices) < BollPeriod
                                        THEN Len(args.prices) ELSE BollPeriod - 1)
    /\ Done("calculate_rsi") =>
          /\ OnGrid(ret.val.rsi, Unit2)
          /\ DefinedFrom(ret.val.rsi, IF Len(args.prices) < RsiPeriod + 1
                                      THEN Len(args.prices) ELSE RsiPeriod)
    /\ (Done("calculate_kdj") /\ ret.exc = "none") =>
          /\ \A f \in {"k", "d", "j"} : OnGrid(ret.val[f], Unit2)
          /\ \A f \in {"k", "d", "j"} :
                DefinedFrom(ret.val[f], IF Len(args.close) < args.period
                                        THEN Len(args.close) ELSE args.period - 1)

\* an RSI strictly between 0 and 100 that is not a whole number
C15_Witness ==
    /\ Done("calculate_rsi")
    /\ Len(args.prices) > RsiPeriod + 1
    /\ ~IsNone(Last(ret.val.rsi))
    /\ Val(Last(ret.val.rsi)) % ONE # 0
    /\ Val(Last(ret.val.rsi)) % Unit2 = 0

\* every entry of the list is one of the labels
LabelsIn(xs, labels) == \A p \in 1..Len(xs) : xs[p] \in labels

\* C16: every label of every returned signal list is in its family's enumeration:
\* MACD in {neutral, bullish, bearish, golden_cross, death_cross}; KDJ in
\* {neutral, overbought, oversold, overbought_cross, oversold_cross, golden_cross,
\* death_cross}; RSI and BOLL in {neutral, overbought, oversold, bullish, bearish};
\* and the list has one label per bar.
C16_ClosedLabels ==
    /\ Done("_get_macd_signals") =>
          /\ Len(ret.val) = Len(args.dif)
          /\ LabelsIn(ret.val, {"neutral", "bullish", "bearish", "golden_cross", "death_cross"})
    /\ Done("calculate_macd") =>
          /\ Len(ret.val.signal) = Len(args.prices)
          /\ LabelsIn(ret.val.signal,
                      {"neutral", "bullish", "bearish", "golden_cross", "death_cross"})
    /\ (Done("_get_kdj_signals") /\ ret.exc = "none") =>
          /\ Len(ret.val) = Len(args.k)
          /\ LabelsIn(ret.val, {"neutral", "overbought", "oversold", "overbought_cross",
                                "oversold_cross", "golden_cross", "death_cross"})
    /\ (Done("calculate_kdj") /\ ret.exc = "none") =>
          /\ Len(ret.val.signal) = Len(args.close)
          /\ LabelsIn(ret.val.signal, {"neutral", "overbought", "oversold", "overbought_cross",
                                       "oversold_cross", "golden_cross", "death_cross"})
    /\ Done("calculate_rsi") =>
          /\ Len(ret.val.signal) = Len(args.prices)
          /\ LabelsIn(ret.val.signal, {"neutral", "overbought", "oversold", "bullish", "bearish"})
    /\ Done("calculate_boll") =>
          /\ Len(ret.val.signal) = Len(args.prices)
          /\ LabelsIn(ret.val.signal, {"neutral", "overbought", "oversold", "bullish", "bearish"})

\* an RSI of 100 on a rising series: labelled overbought
C16_Witness ==
    /\ Done("calculate_rsi")
    /\ Len(args.prices) > RsiPeriod
    /\ Last(ret.val.rsi) = Some(Num(100))
    /\ Last(ret.val.signal) = "overbought"

\* C17: calculate_ema(prices, p) has the length of prices; on a list shorter than
\* p every entry is None; otherwise it is None below index p - 1, the mean of
\* prices[0..p-1] at index p - 1, and at every i >= p
\* ema[i] = (prices[i] - ema[i-1]) * 2/(p+1) + ema[i-1].
C17_EmaRecurrence ==
    Done("calculate_ema") =>
        /\ ret.exc = "none"
        /\ Len(ret.val) = Len(args.prices)
        /\ \A i \in 0..(Len(args.prices) - 1) :
              IF Len(args.prices) < args.period \/ i < args.period - 1
              THEN At(ret.val, i) = None
              ELSE IF i = args.period - 1
              THEN At(ret.val, i) =
                      Some(IntDiv(Sum([q \in 1..args.period |-> args.prices[q]]), args.period))
              ELSE At(ret.val, i) =
                      Some(FMul(At(args.prices, i) - Val(At(ret.val, i - 1)),
                                FDiv(Num(2), Num(args.period + 1)))
                           + Val(At(ret.val, i - 1)))

\* a seed that differs from the price at its index, and a step after it
C17_Witness ==
    /\ Done("calculate_ema")
    /\ args.period = 2
    /\ args.prices = <<Num(1), Num(2), Num(4)>>
    /\ At(ret.val, 0) = None
    /\ At(ret.val, 1) = Some(3 * (ONE \div 2))
    /\ Val(At(ret.val, 2)) > Num(3)
    /\ Val(At(ret.val, 2)) < Num(4)

\* dif as the claim states it: the 12-bar EMA less the 26-bar EMA from index 25 on
MacdExpectDif ==
    LET fast == calculate_ema(args.prices, FastPeriod)
        slow == calculate_ema(args.prices, SlowPeriod)
    IN  [p \in 1..Len(args.prices) |->
            IF p - 1 < SlowPeriod - 1 THEN None ELSE Some(Val(fast[p]) - Val(slow[p]))]

\* dea as the claim states it: the 9-bar EMA of dif[25..], each value at the index
\* of the dif value it was computed at, from index 33 on
MacdExpectDea ==
    LET first == SlowPeriod - 1
        values == [q \in 1..(Len(args.prices) - first) |-> Val(MacdExpectDif[q + first])]
        ema == calculate_ema(values, SignalPeriod)
    IN  [p \in 1..Len(args.prices) |->
            IF p - 1 < first + SignalPeriod - 1 THEN None ELSE ema[p - first]]

MacdExpectHist ==
    [p \in 1..Len(args.prices) |->
        IF IsNone(MacdExpectDif[p]) \/ IsNone(MacdExpectDea[p]) THEN None
        ELSE Some(2 * (Val(MacdExpectDif[p]) - Val(MacdExpectDea[p])))]

\* C18: calculate_macd with the default periods returns, on fewer than 35 bars,
\* dif, dea and macd all undefined and every signal neutral; on 35 bars or more,
\* dif defined exactly from index 25, dea exactly from index 33 with dea[33] the
\* mean of dif[25..33] and dea[i] the 9-bar EMA of the dif values at the same
\* index i, and macd = 2 * (dif - dea) exactly where both are defined (all
\* rounded to 4 decimals on return).
C18_MacdLines ==
    Done("calculate_macd") =>
        IF Len(args.prices) < SlowPeriod + SignalPeriod
        THEN /\ \A f \in {"dif", "dea", "macd"} :
                   ret.val[f] = Repeat(None, Len(args.prices))
             /\ ret.val.signal = Repeat("neutral", Len(args.prices))
        ELSE /\ ret.val.dif = RoundAll(MacdExpectDif, Unit4)
             /\ ret.val.dea = RoundAll(MacdExpectDea, Unit4)
             /\ ret.val.macd = RoundAll(MacdExpectHist, Unit4)
             /\ DefinedFrom(ret.val.dif, 25)
             /\ DefinedFrom(ret.val.dea, 33)
             /\ DefinedFrom(ret.val.macd, 33)
             /\ Val(At(MacdExpectDea, 33)) =
                   IntDiv(Sum([q \in 1..9 |-> Val(At(MacdExpectDif, 24 + q))]), 9)

\* dif and dea apart at index 35, two bars after the seed of dea
C18_Witness ==
    /\ Done("calculate_macd")
    /\ Len(args.prices) = 36
    /\ Val(At(ret.val.dif, 35)) # Val(At(ret.val.dea, 35))
    /\ Val(At(ret.val.dea, 35)) # Val(At(ret.val.dea, 33))
    /\ Val(At(ret.val.macd, 35)) # 0

\* every price of the series is the same
Constant(xs) == \A p \in 1..Len(xs) : xs[p] = xs[1]

\* C19 (as claimed): a MACD label agrees with the sign of dif - dea at its index:
\* bullish and golden_cross only where dif[i] > dea[i], bearish and death_cross
\* only where dif[i] < dea[i]; a constant series, on which dif equals dea, is
\* labelled neither bullish nor bearish.
C19_Original ==
    /\ Done("_get_macd_signals") =>
          \A i \in 0..(Len(args.dif) - 1) :
              /\ At(ret.val, i) \in {"bullish", "golden_cross"}
                    => Val(At(args.dif, i)) > Val(At(args.dea, i))
              /\ At(ret.val, i) \in {"bearish", "death_cross"}
                    => Val(At(args.dif, i)) < Val(At(args.dea, i))
    /\ (Done("calculate_macd") /\ Constant(args.prices)) =>
          \A i \in 0..(Len(args.prices) - 1) :
              At(ret.val.signal, i) \notin {"bullish", "bearish"}

\* rsv[i] of the call's bars
ArgRsv(i) == Val(Rsv(args.high, args.low, args.close, KdjPeriod, i))

\* a is b to the precision of the returned values
Near(a, b) == Abs(a - b) <= Unit2

\* C20 (as claimed): calculate_kdj with period 9 on 9 bars or more returns k and d
\* undefined at indices 0..7 and 50.0 at index 8, and for every i > 8
\* k[i] = (2/3) * k[i-1] + (1/3) * rsv[i], d[i] = (2/3) * d[i-1] + (1/3) * k[i],
\* with j[i] = 3 * k[i] - 2 * d[i] wherever k and d are defined.
C20_Original ==
    (Done("calculate_kdj") /\ args.period = KdjPeriod /\ Len(args.close) >= KdjPeriod)
        => /\ ret.exc = "none"
           /\ DefinedFrom(ret.val.k, 8)
           /\ DefinedFrom(ret.val.d, 8)
           /\ At(ret.val.k, 8) = Some(Num(50))
           /\ At(ret.val.d, 8) = Some(Num(50))
           /\ \A i \in 9..(Len(args.close) - 1) :
                 /\ Near(3 * Val(At(ret.val.k, i)),
                         2 * Val(At(ret.val.k, i - 1)) + ArgRsv(i))
                 /\ Near(3 * Val(At(ret.val.d, i)),
                         2 * Val(At(ret.val.d, i - 1)) + Val(At(ret.val.k, i)))
           /\ \A i \in 8..(Len(args.close) - 1) :
                 Near(Val(At(ret.val.j, i)),
                      3 * Val(At(ret.val.k, i)) - 2 * Val(At(ret.val.d, i)))

\* k and d are defined at i - 1 and at i
KdDefined(i) ==
    /\ i >= 1
    /\ ~Undef(args.k, i) /\ ~Undef(args.d, i)
    /\ ~Undef(args.k, i - 1) /\ ~Undef(args.d, i - 1)

\* k crossed above d, resp. below d, at bar i
KCrossUp(i) ==
    Val(At(args.k, i - 1)) < Val(At(args.d, i - 1)) /\ Val(At(args.k, i)) > Val(At(args.d, i))

KCrossDown(i) ==
    Val(At(args.k, i - 1)) > Val(At(args.d, i - 1)) /\ Val(At(args.k, i)) < Val(At(args.d, i))

\* the label the zone rules and, outside the zones, the crossover rules give bar i
KdjRule(i) ==
    IF Val(At(args.k, i)) > Num(80) /\ Val(At(args.d, i)) > Num(80)
    THEN IF KCrossDown(i) THEN "overbought_cross" ELSE "overbought"
    ELSE IF Val(At(args.k, i)) < Num(20) /\ Val(At(args.d, i)) < Num(20)
    THEN IF KCrossUp(i) THEN "oversold_cross" ELSE "oversold"
    ELSE IF KCrossUp(i) THEN "golden_cross"
    ELSE IF KCrossDown(i) THEN "death_cross"
    ELSE "neutral"

\* C21 (as claimed): _get_kdj_signals labels every bar at which k and d are
\* defined at i and i - 1 by the zone rules first (overbought_cross/overbought
\* above 80, oversold_cross/oversold below 20) and by the crossover rules only
\* outside both zones.
C21_Original ==
    Done("_get_kdj_signals") =>
        \A i \in 0..(Len(args.k) - 1) :
            KdDefined(i) => /\ ret.exc = "none"
                            /\ At(ret.val, i) = KdjRule(i)

\* the same on the calls that return
C21_RuleWhereReturned ==
    (Done("_get_kdj_signals") /\ ret.exc = "none") =>
        \A i \in 0..(Len(args.k) - 1) : KdDefined(i) => At(ret.val, i) = KdjRule(i)

\* every bar of the call has low <= close <= high
BarsOrdered ==
    \A p \in 1..Len(args.close) :
        args.low[p] <= args.close[p] /\ args.close[p] <= args.high[p]

\* every defined entry lies in [0, 100]
InRange(xs) ==
    \A p \in 1..Len(xs) : IsNone(xs[p]) \/ (Val(xs[p]) >= 0 /\ Val(xs[p]) <= Num(100))

\* rsv as calculate_kdj computes it from the call's bars
ArgRsvList == [p \in 1..Len(args.close) |->
                  Rsv(args.high, args.low, args.close, args.period, p - 1)]

\* k and d as the loops of calculate_kdj compute them, before the labels are set
ArgK == SmoothLoop(ArgRsvList, Len(args.close), args.period,
                   Append(Repeat(None, args.period - 1), Some(Num(50))))

ArgD == SmoothLoop(ArgK, Len(args.close), args.period,
                   Append(Repeat(None, args.period - 1), Some(Num(50))))

\* C22: when every bar has low <= close <= high, every defined rsv, k and d that
\* calculate_kdj computes, and every defined k and d it returns, lies in [0, 100].
\* (The bars are not validated: a close outside its bar gives values outside the
\* range, see C22_OutOfRange.)
C22_KdjRange ==
    (Done("calculate_kdj") /\ BarsOrdered) =>
        /\ InRange(ArgRsvList)
        /\ Len(args.close) >= args.period => InRange(ArgK) /\ InRange(ArgD)
        /\ ret.exc = "none" => InRange(ret.val.k) /\ InRange(ret.val.d)

\* ordered bars with closes off the middle: k and d returned, away from the seed
C22_Witness ==
    /\ Done("calculate_kdj")
    /\ BarsOrdered
    /\ ret.exc = "none"
    /\ args.period = 1
    /\ Len(args.close) >= 2
    /\ Val(Last(ret.val.k)) > Num(50)
    /\ Val(Last(ret.val.d)) > Num(50)
    /\ Val(Last(ArgRsvList)) = Num(100)

\* a close above its bar's high: rsv and k above 100
C22_OutOfRange ==
    /\ Done("calculate_kdj")
    /\ ~BarsOrdered
    /\ ret.exc = "none"
    /\ ~InRange(ArgRsvList)
    /\ ~InRange(ret.val.k)

\* the rise and the fall of bar i against bar i - 1 (i >= 1)
GainAt(i) == Max2(0, At(args.prices, i) - At(args.prices, i - 1))
LossAt(i) == Max2(0, At(args.prices, i - 1) - At(args.prices, i))

\* the averages at bar i >= 14: the means of bars 1..14, then smoothed bar by bar
RECURSIVE AvgGainAt(_)
AvgGainAt(i) ==
    IF i = 14 THEN IntDiv(Sum([q \in 1..14 |-> GainAt(q)]), 14)
    ELSE IntDiv(AvgGainAt(i - 1) * 13 + GainAt(i), 14)

RECURSIVE AvgLossAt(_)
AvgLossAt(i) ==
    IF i = 14 THEN IntDiv(Sum([q \in 1..14 |-> LossAt(q)]), 14)
    ELSE IntDiv(AvgLossAt(i - 1) * 13 + LossAt(i), 14)

\* the RSI of bar i >= 14 before it is rounded
ExpectRsi(i) ==
    IF AvgLossAt(i) = 0 THEN Num(100)
    ELSE Num(100) - FDiv(Num(100), Num(1) + FDiv(AvgGainAt(i), AvgLossAt(i)))

\* C23: on 15 bars or more calculate_rsi is undefined at indices 0..13 and defined
\* from index 14 on with values in [0, 100]; the value at 14 comes from the mean
\* gain and mean loss of changes 1..14, and each later bar first updates
\* avgGain = (avgGain * 13 + gain[i]) / 14 and avgLoss likewise, then applies the
\* same formula (rounded to 2 decimals on return).
C23_RsiSmoothing ==
    (Done("calculate_rsi") /\ Len(args.prices) >= 15) =>
        /\ ret.exc = "none"
        /\ DefinedFrom(ret.val.rsi, 14)
        /\ InRange(ret.val.rsi)
        /\ \A i \in 14..(Len(args.prices) - 1) :
              At(ret.val.rsi, i) = Some(RoundTo(ExpectRsi(i), Unit2))

\* gains and losses on both sides of index 14, and a value that moved after it
C23_Witness ==
    /\ Done("calculate_rsi")
    /\ Len(args.prices) >= 17
    /\ Val(Last(ret.val.rsi)) > 0
    /\ Val(Last(ret.val.rsi)) < Num(100)
    /\ Last(ret.val.rsi) # At(ret.val.rsi, 14)
    /\ AvgGainAt(16) # AvgGainAt(14)
    /\ AvgLossAt(16) # AvgLossAt(14)

\* the first matching rule for a value v, None if undefined
RsiRule(v) ==
    IF IsNone(v) THEN "neutral"
    ELSE IF Val(v) >= Num(70) THEN "overbought"
    ELSE IF Val(v) <= Num(30) THEN "oversold"
    ELSE IF Val(v) >= Num(50) THEN "bullish"
    ELSE "bearish"

\* C24 (as amended): the RSI signal at every index is given by the first matching
\* rule (neutral if undefined, overbought if >= 70, oversold if <= 30, bullish if
\* >= 50, else bearish) applied to the rsi value before it is rounded; the
\* returned value is that value rounded to 2 decimals, so it lies within 0.005
\* of it and may sit on the other side of a boundary.
C24_RsiSignalRule ==
    Done("calculate_rsi") =>
        /\ Len(ret.val.signal) = Len(args.prices)
        /\ \A i \in 0..(Len(args.prices) - 1) :
              IF Len(args.prices) < 15 \/ i < 14
              THEN At(ret.val.signal, i) = "neutral" /\ Undef(ret.val.rsi, i)
              ELSE /\ At(ret.val.signal, i) = RsiRule(Some(ExpectRsi(i)))
                   /\ 2 * Abs(Val(At(ret.val.rsi, i)) - ExpectRsi(i)) <= Unit2

\* an average gain equal to the average loss: 50 exactly, labelled bullish
C24_Witness ==
    /\ Done("calculate_rsi")
    /\ Len(args.prices) = 15
    /\ ExpectRsi(14) = Num(50)
    /\ At(ret.val.rsi, 14) = Some(Num(50))
    /\ At(ret.val.signal, 14) = "bullish"

\* C24 (as claimed): the signal at every index is given by the first matching
\* rule applied to the rsi value at that index.
C24_Original ==
    Done("calculate_rsi") =>
        \A i \in 0..(Len(args.prices) - 1) :
            At(ret.val.signal, i) = RsiRule(At(ret.val.rsi, i))

\* the bands of index p - 1 as calculate_boll holds them before it rounds them
ArgBands(p) ==
    IF Len(args.prices) < BollPeriod \/ p - 1 < BollPeriod - 1 THEN None
    ELSE Some(BollAt(args.prices, BollPeriod, BollStdDev, p - 1))

\* the bands of index p - 1 as the result reports them
RetBands(p) ==
    IF IsNone(ret.val.upper[p]) THEN None
    ELSE Some([upper |-> Val(ret.val.upper[p]), middle |-> Val(ret.val.middle[p]),
               lower |-> Val(ret.val.lower[p])])

BollRule(price, b) ==
    CASE IsNone(b) -> "neutral"
      [] ~IsNone(b) /\ price >= Val(b).upper -> "overbought"
      [] ~IsNone(b) /\ price < Val(b).upper /\ price <= Val(b).lower -> "oversold"
      [] ~IsNone(b) /\ price < Val(b).upper /\ price > Val(b).lower
            /\ price > Val(b).middle -> "bullish"
      [] OTHER -> "bearish"

\* C25: at every index the BOLL signal is the first matching rule of neutral
\* (bands undefined), overbought (price >= upper), oversold (price <= lower),
\* bullish (price > middle), bearish, read on the bands before they are rounded
\* to four decimals; a window without deviation is overbought and a price equal
\* to middle with deviation is bearish
C25_BollSignalRule ==
    (Done("calculate_boll") /\ ret.exc = "none") =>
        \A p \in 1..Len(args.prices) :
            /\ ret.val.signal[p] = BollRule(args.prices[p], ArgBands(p))
            /\ ~IsNone(ArgBands(p)) =>
                /\ (Val(ArgBands(p)).upper = Val(ArgBands(p)).lower
                        /\ args.prices[p] = Val(ArgBands(p)).middle)
                    => ret.val.signal[p] = "overbought"
                /\ (Val(ArgBands(p)).upper > Val(ArgBands(p)).lower
                        /\ args.prices[p] = Val(ArgBands(p)).middle)
                    => ret.val.signal[p] = "bearish"

C25_Witness ==
    /\ Done("calculate_boll") /\ ret.exc = "none"
    /\ \E p \in 1..Len(args.prices) :
        /\ ~IsNone(ArgBands(p))
        /\ Val(ArgBands(p)).upper > Val(ArgBands(p)).lower
        /\ args.prices[p] = Val(ArgBands(p)).middle
        /\ ret.val.signal[p] = "bearish"

\* C25 as the claim words it: the rule read on the bands of the result
C25_Original ==
    (Done("calculate_boll") /\ ret.exc = "none") =>
        \A p \in 1..Len(args.prices) :
            ret.val.signal[p] = BollRule(args.prices[p], RetBands(p))

\* xs[-1:], the array cut down to its last element
Ending(xs) == IF Len(xs) = 0 THEN <<>> ELSE <<xs[Len(xs)]>>

EndingOf(result) == [f \in DOMAIN result |-> Ending(result[f])]

\* C26: the summary depends only on the last element of each array: it is the
\* summary of the same arrays cut down to their last element, whatever the
\* earlier elements are
C26_LastElementsOnly ==
    Done("_get_latest_signals") =>
        ret.val = _get_latest_signals(EndingOf(args.macd), EndingOf(args.kdj),
                                      EndingOf(args.rsi), EndingOf(args.boll),
                                      Ending(args.ma5), Ending(args.ma10),
                                      Ending(args.ma20), Ending(args.closes))

C26_Witness ==
    /\ Done("_get_latest_signals")
    /\ Len(args.macd.signal) = 2 /\ Len(args.closes) = 2
    /\ args.macd.signal = <<"golden_cross", "death_cross">>
    /\ args.kdj.signal = <<"oversold_cross", "neutral">>
    /\ args.rsi.signal = <<"oversold", "overbought">>
    /\ args.boll.signal[1] # args.boll.signal[2]
    /\ args.closes[1] > args.closes[2]
    /\ ret.val.bullish_count = 0 /\ ret.val.bearish_count = 4
    /\ ret.val.latest_values.macd_dif = args.macd.dif[2]

\* the place of a source in the order MACD, KDJ, RSI, BOLL, MA
Rank(indicator) ==
    CASE indicator = "MACD" -> 1 [] indicator = "KDJ" -> 2 [] indicator = "RSI" -> 3
      [] indicator = "BOLL" -> 4 [] indicator = "MA" -> 5 [] OTHER -> 0

\* what each of the five sources contributes for the arguments of the call
Parts ==
    <<MacdPart(LastOr(args.macd.signal, "neutral")),
      KdjPart(LastOr(args.kdj.signal, "neutral")),
      RsiPart(LastOr(args.rsi.signal, "neutral"), Num(50)),
      BollPart(LastOr(args.boll.signal, "neutral")),
      MaPart(args.ma5, args.ma10, args.closes)>>

\* C27: each of the five sources adds to at most one counter and gives at most
\* one entry; both counters are at least 0, their sum is at most 6, and the
\* signals list holds at most five entries in the order MACD, KDJ, RSI, BOLL, MA
C27_CounterBounds ==
    Done("_get_latest_signals") =>
        /\ \A s \in 1..5 :
            /\ Parts[s].bull = 0 \/ Parts[s].bear = 0
            /\ Parts[s].bull >= 0 /\ Parts[s].bear >= 0
            /\ Len(Parts[s].sig) <= 1
        /\ ret.val.bullish_count >= 0
        /\ ret.val.bearish_count >= 0
        /\ ret.val.bullish_count + ret.val.bearish_count <= 6
        /\ Len(ret.val.signals) <= 5
        /\ \A p \in 1..Len(ret.val.signals) : Rank(ret.val.signals[p].indicator) >= 1
        /\ \A p \in 1..(Len(ret.val.signals) - 1) :
            Rank(ret.val.signals[p].indicator) < Rank(ret.val.signals[p + 1].indicator)

C27_Witness ==
    /\ Done("_get_latest_signals")
    /\ ret.val.bullish_count = 6
    /\ ret.val.bearish_count = 0
    /\ Len(ret.val.signals) = 5
    /\ [p \in 1..5 |-> ret.val.signals[p].indicator] = <<"MACD", "KDJ", "RSI", "BOLL", "MA">>

\* the quantity of a code that the recorded transactions leave: bought less sold
NetQuantity(code) ==
    Sum([p \in 1..Len(transactions) |->
            IF transactions[p].code # code THEN 0
            ELSE IF transactions[p].type = "buy" THEN transactions[p].quantity
            ELSE 0 - transactions[p].quantity])

\* C28: from an empty portfolio, after any buy and sell calls every stored
\* position has a quantity above 0 that equals the code's bought less its sold
\* quantities; a code whose net quantity is 0 has no entry, and no net quantity
\* is negative
C28_PositionQuantities ==
    /\ \A code \in DOMAIN positions :
        /\ positions[code].quantity > 0
        /\ positions[code].quantity = NetQuantity(code)
    /\ \A code \in Codes :
        /\ NetQuantity(code) >= 0
        /\ NetQuantity(code) = 0 => code \notin DOMAIN positions

C28_Witness ==
    /\ Done("sell")
    /\ ret.success
    /\ args.code \notin DOMAIN positions
    /\ NetQuantity(args.code) = 0
    /\ \E code \in DOMAIN positions : positions[code].quantity = 2
    /\ Len(transactions) = 3

\* what the claim lists as rejected, for a call and the positions it meets
ShouldReject(name, a, held) ==
    IF name \in {"buy", "buy_stock"} THEN a.quantity <= 0 \/ a.price <= 0
    ELSE \/ a.code \notin DOMAIN held
         \/ a.quantity > held[a.code].quantity
         \/ a.quantity <= 0
         \/ a.price <= 0

\* C29: a rejected buy or sell returns success = False (the handler answers
\* with an error) and changes neither positions nor transactions, and nothing is
\* saved
C29_RejectedUntouched ==
    [][(pc = "idle" /\ pc' = "returned" /\ ShouldReject(op', args', positions)) =>
            /\ op' \in {"buy", "sell"} => ret'.success = FALSE
            /\ op' \in {"buy_stock", "sell_stock"} => ret'.exc # "none"
            /\ UNCHANGED portfolio]_vars

C29_Witness ==
    /\ Done("sell")
    /\ ret.success = FALSE
    /\ args.code \in DOMAIN positions
    /\ args.quantity > positions[args.code].quantity
    /\ args.price > 0
    /\ Len(transactions) = 1
    /\ data_file = Some([positions |-> positions, transactions |-> transactions])

\* the code is in its cooldown at the clock's time: it alerted less than 300
\* seconds ago
Cooling(code) == code \in DOMAIN last_alert_time /\ now - last_alert_time[code] < 300

\* the alerts a quote asks for by the thresholds alone
Asked(q) ==
    LET up == IF IsNone(q.alert_up) THEN Num(3) ELSE Val(q.alert_up)
        down == IF IsNone(q.alert_down) THEN 0 - Num(3) ELSE Val(q.alert_down)
    IN  (IF q.change_percent >= up THEN <<"price_up">> ELSE <<>>)
        \o (IF q.change_percent <= down THEN <<"price_down">> ELSE <<>>)

\* the time of a code's last alert is the same before and after the step
SameTime(code) ==
    /\ code \in DOMAIN last_alert_time' <=> code \in DOMAIN last_alert_time
    /\ code \in DOMAIN last_alert_time => last_alert_time'[code] = last_alert_time[code]

\* C30: a check_alerts call for a code that alerted less than 300 seconds ago
\* returns an empty list and leaves alerts and last_alert_time unchanged whatever
\* the change; outside the cooldown the call triggers what the thresholds ask,
\* whatever the other codes' cooldowns, and never touches their times; a call that
\* triggers something sets the code's time to the time of the call, a call that
\* triggers nothing leaves every time as it was; the scheduled job, which makes
\* these calls for the quotes of the watch list, adds no alert for a code in its
\* cooldown and keeps its time
C30_Cooldown ==
    [][/\ (pc = "idle" /\ pc' = "returned" /\ op' = "check_alerts") =>
            /\ Cooling(args'.code) =>
                /\ ret'.val = <<>>
                /\ alerts' = alerts
                /\ last_alert_time' = last_alert_time
            /\ ~Cooling(args'.code) =>
                [p \in 1..Len(ret'.val) |-> ret'.val[p].alert_type] = Asked(args')
            /\ \A code \in Codes \ {args'.code} : SameTime(code)
            /\ Len(ret'.val) > 0 =>
                /\ args'.code \in DOMAIN last_alert_time'
                /\ last_alert_time'[args'.code] = now
                /\ alerts' = alerts \o ret'.val
                /\ \A p \in 1..Len(ret'.val) :
                    ret'.val[p].code = args'.code /\ ret'.val[p].triggered_at = now
            /\ Len(ret'.val) = 0 => (alerts' = alerts /\ SameTime(args'.code))
       /\ (pc = "idle" /\ pc' = "returned" /\ op' = "scheduled_check_alerts") =>
            /\ SubSeq(alerts', 1, Len(alerts)) = alerts
            /\ \A code \in Codes :
                Cooling(code) =>
                    /\ SameTime(code)
                    /\ \A p \in (Len(alerts) + 1)..Len(alerts') : alerts'[p].code # code]_vars

C30_Witness ==
    /\ Done("check_alerts")
    /\ Cooling(args.code)
    /\ now - last_alert_time[args.code] = 299
    /\ Len(Asked(args)) = 2
    /\ ret.val = <<>>
    /\ \E code \in Codes \ {args.code} :
        code \in DOMAIN last_alert_time /\ now - last_alert_time[code] = 100

====
